---- MODULE Spec2Model ----
(***************************************************************************)
(* CommitRaider: the commit-history extraction engine (GitAnalyzer) and    *)
(* the run of main() around it.                                            *)
(*                                                                         *)
(* The extractor reads commit metadata through the libgit2 handle on one   *)
(* sequential path, batch by batch, then probes the changed files of each  *)
(* commit of the batch with `git` subprocesses run as tokio tasks behind a *)
(* semaphore, collects the task outputs with JoinSet::join_next, combines  *)
(* them with the metadata and folds the batch into RepositoryStats.        *)
(***************************************************************************)
EXTENDS Integers, Sequences, FiniteSets, TLC

(***************************************************************************)
(* Bounds of the model.  batch_size and SemaphorePermits stand for the     *)
(* literals 50 (analyzer.rs:141) and 32 (analyzer.rs:176), scaled down so  *)
(* that a batch still holds more commits than there are permits.           *)
(***************************************************************************)
MaxCommits == 5
batch_size == 3
SemaphorePermits == 2
NowTime == 1000
SampleSlack == 2
MaxFold == 3
CommitCap == 2
LineSlack == 2
MaxFiles == 12
MaxScan == 3
MaxThreads == 2
OtherStaleDays == 100
MaxCodeFiles == 2
MaxRiskFiles == 3
MaxFindings == 6
MaxDependencies == 21
MaxAuthored == 3
DateSlack == 50

MAX_COMMITS_FOR_FULL_ANALYSIS == 20000
MAX_FILES_PER_COMMIT == 20
StaleDays == 365

VARIABLES
    reachable,       \* the repository: number of commits reachable from the head
    pc,              \* where main() / GitAnalyzer::analyze stands
    err,             \* the error main() returned, "none" while there is none
    env,             \* what the run is given: does the repository open, do the
                     \* patterns compile, which commit (0: none) is unreadable,
                     \* AnalysisConfig.max_commits (0: None), --stale-days,
                     \* --patterns, the size of the rayon pool (--threads, or
                     \* the number of cores), the (pattern, commit id) pairs
                     \* for which Regex::captures returns Err, --stats, and
                     \* what Repository::head() answers
    compiled_patterns, \* PatternEngine.compiled_patterns: the loaded patterns
    scan_results,    \* scan_repository: per commit of commit_history, what the
                     \* rayon worker that took it has made of it
    vulnerabilities, \* the findings scan_repository returned to main
    code_stats,      \* main's code_stats: <<>> until it is bound, then <<CodeStats>>
    overall_risk,    \* the report's overall_risk: <<>> until it is computed
    commit_oids,     \* analyze_commits: the walked (and sampled) commit ids
    batch_start,     \* number of commits in the batches before the current one
    partial_commits, \* metadata tuples of the current batch
    spawned,         \* number of probe tasks spawned for the current batch
    task,            \* per commit: the probe task spawned for it
    permits,         \* permits available in the current batch's semaphore
    notified,        \* JoinSet: finished tasks not yet returned by join_next
    file_results,    \* the collected task outputs of the current batch
    commit_infos,    \* combined CommitInfo records waiting to be applied
    stats,           \* the RepositoryStats being built
    map_order,       \* the order in which the file_history HashMap iterates,
                     \* <<>> until it is first iterated
    handle_reads,    \* number of reads made through the git2::Repository handle
    returned_stats,  \* TRUE once analyze() has returned Ok(stats) to main
    report_written   \* TRUE once Reporter::generate_report has written the file

vars == <<code_stats, overall_risk, compiled_patterns, scan_results, vulnerabilities, reachable, map_order, pc, err, env, commit_oids, batch_start, partial_commits, spawned, task,
          permits, notified, file_results, commit_infos, stats, handle_reads,
          returned_stats, report_written>>

(***************************************************************************)
(* The repository under analysis.  Commit ids are numbered in the order    *)
(* the revwalk yields them (Sort::TIME, newest first): 1 is the head and   *)
(* the last one is the root commit, the only commit without a parent.      *)
(***************************************************************************)
Oids == 1..MaxCommits

RootOid == reachable

HasParent(oid) == oid # RootOid

\* The files a commit changes against its first parent (for the root
\* commit: the files of its tree, all of them added by it).
TreeChange(oid) ==
    IF oid = RootOid THEN <<"file1.txt">>
    ELSE CASE oid % 3 = 1 -> <<"file2.txt">>
           [] oid % 3 = 2 -> <<"file1.txt", "file2.txt">>
           [] OTHER       -> <<>>

AuthorOf(oid) == IF oid % 2 = 1 THEN "alice" ELSE "bob"

EmailOf(oid) == IF oid % 2 = 1 THEN "alice@example.org" ELSE "bob@example.org"

MessageOf(oid) ==
    IF oid = RootOid THEN "fix buffer overflow"
    ELSE CASE oid % 3 = 1 -> "CVE-2022-0001 auth bypass"
           [] OTHER       -> "routine update"

\* Author timestamps in days: the walk is newest first, 150 days apart.
DateOf(oid) == NowTime - 150 * oid

Take(s, n) == SubSeq(s, 1, IF Len(s) < n THEN Len(s) ELSE n)

Min(a, b) == IF a < b THEN a ELSE b

\* File names f1, f2, ...
FileNames(n) == [i \in 1..n |-> "f" \o ToString(i)]

EmptyMap == [k \in {} |-> 0]

IdleTask == [st |-> "idle", fault |-> "none", files |-> <<>>]

\* RepositoryStats as analyze() constructs it.
InitialStats ==
    [total_commits  |-> 0,
     total_files    |-> 0,
     total_authors  |-> 0,
     first_commit   |-> NowTime,
     last_commit    |-> 0,
     commit_history |-> <<>>,
     file_history   |-> EmptyMap,
     author_stats   |-> EmptyMap,
     single_author_files |-> <<>>,
     stale_files    |-> <<>>,
     high_churn_files |-> <<>>]

Init ==
    /\ pc = "pattern_engine"
    /\ err = "none"
    /\ reachable = MaxCommits
    /\ map_order = <<>>
    /\ env \in [repo_opens : BOOLEAN, patterns_compile : BOOLEAN,
                unreadable : 0..MaxCommits, max_commits : {0},
                stale_days : {StaleDays}, patterns : {"vuln"}, threads : {1},
                regex_error : {{}}, stats : {FALSE},
                head : {"direct", "unresolved"}]
    /\ commit_oids = <<>>
    /\ batch_start = 0
    /\ partial_commits = <<>>
    /\ spawned = 0
    /\ task = [o \in Oids |-> IdleTask]
    /\ permits = 0
    /\ notified = <<>>
    /\ file_results = <<>>
    /\ commit_infos = <<>>
    /\ stats = InitialStats
    /\ handle_reads = 0
    /\ returned_stats = FALSE
    /\ report_written = FALSE
    /\ compiled_patterns = <<>>
    /\ scan_results = <<>>
    /\ vulnerabilities = <<>>
    /\ code_stats = <<>>
    /\ overall_risk = <<>>

(***************************************************************************)
(* The `git` subprocesses of a probe.  fault names what the environment    *)
(* does to the command: "none" (git runs and answers as git does),         *)
(* "spawn_error" (the process cannot be started), "exit_error" (git exits  *)
(* non-zero for an outside reason).                                        *)
(***************************************************************************)
ProcessFaults == {"none", "spawn_error", "exit_error"}

\* git diff-tree --no-commit-id --name-only -r <oid>~1 <oid>: for the root
\* commit <oid>~1 names no revision and git exits 128 ("unknown revision").
DiffTree(oid, fault) ==
    IF fault = "spawn_error" THEN [started |-> FALSE, success |-> FALSE, lines |-> <<>>]
    ELSE IF fault = "exit_error" \/ ~HasParent(oid)
         THEN [started |-> TRUE, success |-> FALSE, lines |-> <<>>]
         ELSE [started |-> TRUE, success |-> TRUE, lines |-> TreeChange(oid)]

\* git show --pretty=format: --name-only <oid>
GitShow(oid, fault) ==
    IF fault = "spawn_error" THEN [started |-> FALSE, success |-> FALSE, lines |-> <<>>]
    ELSE IF fault = "exit_error"
         THEN [started |-> TRUE, success |-> FALSE, lines |-> <<>>]
         ELSE [started |-> TRUE, success |-> TRUE, lines |-> TreeChange(oid)]

\* String::from_utf8_lossy on one line of git's output: every invalid byte
\* becomes U+FFFD (written "?"), so names that differ only in invalid bytes
\* decode to the same string.  git prints such bytes raw when core.quotePath
\* is false.
from_utf8_lossy(line) ==
    IF line \in {"n\\xfe.txt", "n\\xff.txt"} THEN "n?.txt" ELSE line

ParseNames_noTake(lines) ==
    SelectSeq([i \in 1..Len(lines) |-> from_utf8_lossy(lines[i])], LAMBDA l : l # "")

\* String::from_utf8_lossy(&output.stdout)
\*     .lines().take(MAX_FILES_PER_COMMIT).map(to_string).filter(!is_empty)
ParseNames(lines) ==
    SelectSeq(Take([i \in 1..Len(lines) |-> from_utf8_lossy(lines[i])],
                   MAX_FILES_PER_COMMIT),
              LAMBDA l : l # "")

\* GitAnalyzer::get_changed_files_concurrent, given what its commands do.
GetChangedFilesConcurrent(diff, show) ==
    IF diff.started /\ diff.success
    THEN LET files == ParseNames(diff.lines) IN
         IF files = <<>> /\ show.started /\ show.success
         THEN ParseNames(show.lines)
         ELSE files
    ELSE <<>>

\* What one spawned probe can end with: the value of the task, tagged with
\* the fault that hit it.  A timeout replaces the value by Ok(Vec::new());
\* an aborted task has no value (join_next yields a JoinError).
ProbeRuns(oid) ==
    {[fault |-> "timeout", files |-> <<>>], [fault |-> "abort", files |-> <<>>]}
    \cup
    {[fault |-> IF f # "none" THEN f
                ELSE IF DiffTree(oid, f).success /\ ParseNames(DiffTree(oid, f).lines) = <<>>
                     THEN g ELSE "none",
      files |-> GetChangedFilesConcurrent(DiffTree(oid, f), GitShow(oid, g))]
        : f \in ProcessFaults, g \in ProcessFaults}

(***************************************************************************)
(* StatsAggregator: update_author_stats and update_file_history.           *)
(***************************************************************************)
Put(m, k, v) == [x \in DOMAIN m \cup {k} |-> IF x = k THEN v ELSE m[x]]

SeqToSet(s) == {s[i] : i \in 1..Len(s)}

update_author_stats_insertOnly(author_stats, commit) ==
    LET author_key == commit.author \o ":" \o commit.author_email IN
    IF author_key \in DOMAIN author_stats THEN author_stats
    ELSE Put(author_stats, author_key,
             [name |-> commit.author, email |-> commit.author_email,
              commits |-> 1, files_touched |-> SeqToSet(commit.files_changed),
              first_commit |-> commit.authored_date,
              last_commit |-> commit.authored_date])

update_author_stats(author_stats, commit) ==
    LET author_key == commit.author \o ":" \o commit.author_email
        entry == IF author_key \in DOMAIN author_stats
                 THEN author_stats[author_key]
                 ELSE [name |-> commit.author, email |-> commit.author_email,
                       commits |-> 0, files_touched |-> {},
                       first_commit |-> commit.authored_date,
                       last_commit |-> commit.authored_date]
    IN Put(author_stats, author_key,
           [entry EXCEPT !.commits = @ + 1,
                         !.first_commit = Min(@, commit.authored_date),
                         !.last_commit = IF commit.authored_date > @
                                         THEN commit.authored_date ELSE @,
                         !.files_touched = @ \cup SeqToSet(commit.files_changed)])

touch_file_skipFirst(file_history, file_path, commit) ==
    IF file_path \in DOMAIN file_history
    THEN Put(file_history, file_path,
             [file_history[file_path] EXCEPT !.commits = Append(@, commit.id),
                                             !.authors = @ \cup {commit.author},
                                             !.total_changes = @ + 1])
    ELSE Put(file_history, file_path,
             [path |-> file_path, commits |-> <<commit.id>>, authors |-> {commit.author},
              first_commit |-> commit.authored_date,
              last_commit |-> commit.authored_date, total_changes |-> 0])

touch_file(file_history, file_path, commit) ==
    LET entry == IF file_path \in DOMAIN file_history
                 THEN file_history[file_path]
                 ELSE [path |-> file_path, commits |-> <<>>, authors |-> {},
                       first_commit |-> commit.authored_date,
                       last_commit |-> commit.authored_date,
                       total_changes |-> 0]
    IN Put(file_history, file_path,
           [entry EXCEPT !.commits = Append(@, commit.id),
                         !.authors = @ \cup {commit.author},
                         !.total_changes = @ + 1,
                         !.first_commit = Min(@, commit.authored_date),
                         !.last_commit = IF commit.authored_date > @
                                         THEN commit.authored_date ELSE @])

RECURSIVE fold_files(_, _, _)
fold_files(file_history, files, commit) ==
    IF files = <<>> THEN file_history
    ELSE fold_files(touch_file(file_history, Head(files), commit), Tail(files), commit)

update_file_history(file_history, commit) ==
    fold_files(file_history, commit.files_changed, commit)

\* One turn of the "apply updates sequentially" loop of analyze_commits.
apply_commit(s, commit) ==
    [s EXCEPT !.first_commit = Min(@, commit.authored_date),
              !.last_commit = IF commit.authored_date > @ THEN commit.authored_date ELSE @,
              !.author_stats = update_author_stats(@, commit),
              !.file_history = update_file_history(@, commit),
              !.commit_history = Append(@, commit),
              !.total_commits = @ + 1]

(***************************************************************************)
(* patterns/mod.rs: the pattern catalog.  A regex of the catalog is        *)
(* (?i)\b(alt|alt|...)\b, every alternative a run of literal words with    *)
(* one separator character between them; it is kept here as the list of    *)
(* its alternatives (each a list of words) and the set of characters its   *)
(* separator class accepts ([-\s], whitespace standing as the space).      *)
(* The CVE Reference regex has its own shape and its own matcher below.    *)
(***************************************************************************)
DashOrSpace == {"-", " "}

VulnerabilityPattern(name, severity, category, alts, seps) ==
    [name |-> name, severity |-> severity, category |-> category,
     alts |-> alts, seps |-> seps]

default_patterns ==
    << VulnerabilityPattern("Use After Free", "Critical", "MemorySafety",
           << <<"use", "after", "free">>, <<"uaf">>, <<"dangling", "pointer">> >>,
           DashOrSpace),
       VulnerabilityPattern("Buffer Overflow", "Critical", "MemorySafety",
           << <<"buffer", "overflow">>, <<"stack", "overflow">>,
              <<"heap", "overflow">>, <<"bof">>, <<"ovflw">>, <<"stacko">> >>,
           DashOrSpace),
       VulnerabilityPattern("Double Free", "High", "MemorySafety",
           << <<"double", "free">>, <<"free", "after", "free">> >>, DashOrSpace),
       VulnerabilityPattern("Race Condition", "High", "Concurrency",
           << <<"race", "condition">>, <<"data", "race">>, <<"concurrency", "bug">> >>,
           DashOrSpace),
       VulnerabilityPattern("Memory Leak", "Medium", "MemorySafety",
           << <<"memory", "leak">>, <<"mem", "leak">>, <<"resource", "leak">> >>,
           DashOrSpace),
       VulnerabilityPattern("Null Pointer Dereference", "Medium", "MemorySafety",
           << <<"null", "pointer">>, <<"nullptr", "dereference">>,
              <<"segfault">>, <<"sigsegv">> >>,
           DashOrSpace),
       VulnerabilityPattern("Code Injection", "Critical", "CodeInjection",
           << <<"code", "injection">>, <<"command", "injection">>,
              <<"sql", "injection">>, <<"remote", "code", "execution">>, <<"rce">> >>,
           DashOrSpace),
       VulnerabilityPattern("Type confusion", "Critical", "CodeInjection",
           << <<"type", "confusion">>, <<"confused">> >>, {" "}),
       VulnerabilityPattern("Authentication Bypass", "Critical",
           "AuthenticationAuthorization",
           << <<"auth", "bypass">>, <<"authentication", "bypass">>,
              <<"privilege", "escalation">> >>,
           DashOrSpace),
       VulnerabilityPattern("Cross-Site Scripting", "Medium", "WebSecurity",
           << <<"xss">>, <<"cross", "site", "scripting">> >>, DashOrSpace),
       VulnerabilityPattern("Weak Cryptography", "Medium", "Cryptography",
           << <<"weak", "crypto">>, <<"weak", "cipher">>, <<"broken", "crypto">>,
              <<"md5">>, <<"sha1">>, <<"des">>, <<"rc4">> >>,
           DashOrSpace),
       VulnerabilityPattern("CVE Reference", "Info", "Generic", <<>>, DashOrSpace),
       VulnerabilityPattern("Security Fix", "Info", "Generic",
           << <<"security", "fix">>, <<"security", "patch">>, <<"vulnerability">>,
              <<"exploit">>, <<"malicious">>, <<"vulnerable">>, <<"fallthrough">> >>,
           DashOrSpace) >>

(***************************************************************************)
(* Regex::captures on a commit message, for the regexes of the catalog.    *)
(***************************************************************************)
UpperCase == "ABCDEFGHIJKLMNOPQRSTUVWXYZ"

LowerCase == "abcdefghijklmnopqrstuvwxyz"

Digits == {"0", "1", "2", "3", "4", "5", "6", "7", "8", "9"}

\* The character of s at position i, "" outside of s.
CharAt(s, i) == IF i >= 1 /\ i <= Len(s) THEN SubSeq(s, i, i) ELSE ""

\* (?i): letters compare without case.
LowerChar(c) ==
    IF \E i \in 1..26 : CharAt(UpperCase, i) = c
    THEN CharAt(LowerCase, CHOOSE i \in 1..26 : CharAt(UpperCase, i) = c)
    ELSE c

RECURSIVE Lower(_)
Lower(s) ==
    IF s = "" THEN ""
    ELSE LowerChar(CharAt(s, 1)) \o Lower(SubSeq(s, 2, Len(s)))

\* \w of a lower-cased character.
IsWordChar(c) ==
    \/ c \in Digits
    \/ c = "_"
    \/ \E i \in 1..26 : CharAt(LowerCase, i) = c

\* \b between positions i - 1 and i of s.
WordBoundary(s, i) == IsWordChar(CharAt(s, i - 1)) # IsWordChar(CharAt(s, i))

\* The position after words matched at position i of s with one separator
\* of seps between them, 0 if they do not match there.
RECURSIVE WordsEnd(_, _, _, _)
WordsEnd(s, i, words, seps) ==
    IF i + Len(Head(words)) - 1 > Len(s) THEN 0
    ELSE IF SubSeq(s, i, i + Len(Head(words)) - 1) # Head(words) THEN 0
    ELSE IF Len(words) = 1 THEN i + Len(Head(words))
    ELSE IF CharAt(s, i + Len(Head(words))) \in seps
         THEN WordsEnd(s, i + Len(Head(words)) + 1, Tail(words), seps)
         ELSE 0

\* The position after the first digit run of s that starts at i.
RECURSIVE DigitsEnd(_, _)
DigitsEnd(s, i) == IF CharAt(s, i) \in Digits THEN DigitsEnd(s, i + 1) ELSE i

\* An optional separator at position i: the position after it.
SkipSep(s, i, seps) == IF CharAt(s, i) \in seps THEN i + 1 ELSE i

\* \d{4,} at h, the group started at g: <<start of group 1, position after>>
CveTail(g, h, e) == IF e >= h + 4 THEN <<g, e>> ELSE <<0, 0>>

\* \d{4}[-\s]? at g, then the tail
CveGroup(s, g, seps, h) ==
    IF DigitsEnd(s, g) >= g + 4 THEN CveTail(g, h, DigitsEnd(s, h)) ELSE <<0, 0>>

\* cve[-\s]?(\d{4}[-\s]?\d{4,}) at position i of s: <<start of group 1,
\* position after the match>>, <<0, 0>> if it does not match there.
CvePrefix(s, i, seps, g) ==
    IF i + 2 <= Len(s) /\ SubSeq(s, i, i + 2) = "cve"
    THEN CveGroup(s, g, seps, SkipSep(s, g + 4, seps))
    ELSE <<0, 0>>

CveEnd(s, i, seps) == CvePrefix(s, i, seps, SkipSep(s, i + 3, seps))

\* A match that ends at e also needs the closing \b.
Closed(s, e) == e # 0 /\ WordBoundary(s, e)

CveMatch(s, c) == IF Closed(s, c[2]) THEN <<1, c[1], c[2]>> ELSE <<0, 0, 0>>

AltHits(pattern, s, i) ==
    {a \in 1..Len(pattern.alts) :
        Closed(s, WordsEnd(s, i, pattern.alts[a], pattern.seps))}

Minimum(set) == CHOOSE x \in set : \A y \in set : x <= y

\* The first alternative, in the order of the regex, that matches at i.
FirstAlt(pattern, s, i, hits) ==
    IF hits = {} THEN <<0, 0, 0>>
    ELSE <<Minimum(hits), i,
           WordsEnd(s, i, pattern.alts[Minimum(hits)], pattern.seps)>>

\* Where the regex of pattern matches at position i of the lower-cased
\* message s: <<alternative (0: none), start of group 1, position after>>.
MatchAt(pattern, s, i) ==
    IF ~WordBoundary(s, i) THEN <<0, 0, 0>>
    ELSE IF pattern.name = "CVE Reference"
    THEN CveMatch(s, CveEnd(s, i, pattern.seps))
    ELSE FirstAlt(pattern, s, i, AltHits(pattern, s, i))

\* The captures of a match m found at position i.
MatchResult(message, i, m) ==
    [matched |-> TRUE,
     text |-> SubSeq(message, i, m[3] - 1),
     group1 |-> SubSeq(message, m[2], m[3] - 1)]

LeftmostAt(pattern, message, s, i) ==
    MatchResult(message, i, MatchAt(pattern, s, i))

Leftmost(pattern, message, s, at) ==
    IF at = {} THEN [matched |-> FALSE, text |-> "", group1 |-> ""]
    ELSE LeftmostAt(pattern, message, s, Minimum(at))

CapturesIn(pattern, message, s) ==
    Leftmost(pattern, message, s, {i \in 1..Len(s) : MatchAt(pattern, s, i)[1] # 0})

\* regex.captures(&commit.message): the leftmost match, as
\* [matched: is there one, text: group 0, group1: group 1]; the Err outcome
\* is the caller's (env.regex_error).
captures(pattern, message) == CapturesIn(pattern, message, Lower(message))

\* The messages the commits of the model carry.
MessageList ==
    <<"fix buffer overflow", "CVE-2022-0001 auth bypass", "routine update",
      "CVE-2021-1234", "cve 2021 1234 fix XSS", "Security fix for sql-injection",
      "use after free, double free and memory leak", "overflowed the buffers",
      "patch xss exploit">>

CommitMessages == {MessageList[i] : i \in 1..Len(MessageList)}

\* Regex::new(&pattern.pattern) for every pattern of the catalog: the
\* compiled regex, as what its captures() answers on each message.
CompiledRegex ==
    [k \in 1..Len(default_patterns) |->
        [m \in CommitMessages |-> captures(default_patterns[k], m)]]

RegexOf(pattern) ==
    CompiledRegex[CHOOSE k \in 1..Len(default_patterns) :
                      default_patterns[k].name = pattern.name]

(***************************************************************************)
(* PatternEngine::new: the catalog a --patterns value selects.             *)
(***************************************************************************)
get_memory_safety_patterns ==
    SelectSeq(default_patterns, LAMBDA p : p.category = "MemorySafety")

get_crypto_patterns ==
    SelectSeq(default_patterns, LAMBDA p : p.category = "Cryptography")

get_web_patterns ==
    SelectSeq(default_patterns, LAMBDA p : p.category = "WebSecurity")

get_vuln_patterns ==
    SelectSeq(default_patterns, LAMBDA p : p.category # "Generic")

SelectPatterns_narrowAll(pattern_set) ==
    CASE pattern_set = "memorysafety" -> get_memory_safety_patterns
      [] pattern_set = "crypto"       -> get_crypto_patterns
      [] pattern_set = "web"          -> get_web_patterns
      [] pattern_set = "all"          -> get_memory_safety_patterns
      [] OTHER                        -> get_vuln_patterns

\* match pattern_set { ... }
SelectPatterns(pattern_set) ==
    CASE pattern_set = "memorysafety" -> get_memory_safety_patterns
      [] pattern_set = "crypto"       -> get_crypto_patterns
      [] pattern_set = "web"          -> get_web_patterns
      [] pattern_set = "all"          -> default_patterns
      [] OTHER                        -> get_vuln_patterns

(***************************************************************************)
(* main(): construction.                                                   *)
(***************************************************************************)
Fail(cause) ==
    /\ pc' = "failed"
    /\ err' = cause

\* Where main() goes after PatternEngine::new(&cli.patterns)?
AfterPatternEngineNew == IF env.patterns_compile THEN "git_analyzer" ELSE "failed"

PatternEngineNew ==
    /\ pc = "pattern_engine"
    /\ pc' = AfterPatternEngineNew
    /\ err' = IF pc' = "failed" THEN "pattern" ELSE err
    /\ compiled_patterns' = IF pc' = "failed" THEN compiled_patterns
                            ELSE SelectPatterns(env.patterns)
    /\ UNCHANGED <<code_stats, overall_risk, scan_results, vulnerabilities, reachable, map_order, env, commit_oids, batch_start, partial_commits, spawned, task,
                   permits, notified, file_results, commit_infos, stats,
                   handle_reads, returned_stats, report_written>>

AfterGitAnalyzerNew_ignoreError == "reporter"

\* Where main() goes after GitAnalyzer::new(&cli.repo)?
AfterGitAnalyzerNew == IF env.repo_opens THEN "reporter" ELSE "failed"

GitAnalyzerNew ==
    /\ pc = "git_analyzer"
    /\ pc' = AfterGitAnalyzerNew
    /\ err' = IF pc' = "failed" THEN "open" ELSE err
    /\ UNCHANGED <<code_stats, overall_risk, compiled_patterns, scan_results, vulnerabilities, reachable, map_order, env, commit_oids, batch_start, partial_commits, spawned, task,
                   permits, notified, file_results, commit_infos, stats,
                   handle_reads, returned_stats, report_written>>

\* Reporter::new: picks the format and the output path, touches no file.
ReporterNew ==
    /\ pc = "reporter"
    /\ pc' = "branches"
    /\ UNCHANGED <<code_stats, overall_risk, compiled_patterns, scan_results, vulnerabilities, reachable, map_order, err, env, commit_oids, batch_start, partial_commits, spawned,
                   task, permits, notified, file_results, commit_infos, stats,
                   handle_reads, returned_stats, report_written>>

(***************************************************************************)
(* GitAnalyzer::analyze                                                    *)
(***************************************************************************)
\* analyze_branches: lists the local branches through the handle.
AnalyzeBranches ==
    /\ pc = "branches"
    /\ pc' = "revwalk"
    /\ handle_reads' = handle_reads + 1
    /\ UNCHANGED <<code_stats, overall_risk, compiled_patterns, scan_results, vulnerabilities, reachable, map_order, err, env, commit_oids, batch_start, partial_commits, spawned,
                   task, permits, notified, file_results, commit_infos, stats,
                   returned_stats, report_written>>

\* The commits the revwalk yields from the head, newest first.
RevWalk == [i \in 1..reachable |-> i]

BatchLen == Min(batch_size, Len(commit_oids) - batch_start)

sample_commits_none(walk) == walk

\* The sampling of a large repository: the first (most recent)
\* MAX_COMMITS_FOR_FULL_ANALYSIS ids of the walk.
sample_commits(walk) ==
    IF Len(walk) > MAX_COMMITS_FOR_FULL_ANALYSIS
    THEN Take(walk, MAX_COMMITS_FOR_FULL_ANALYSIS)
    ELSE walk

OnPushHeadError_ignore == "ignore"

\* revwalk.push_head()?: an error of the fallback is returned.
OnPushHeadError == "fail"

\* What the revwalk is started from.  env.head is what Repository::head()
\* answers: "direct" for Ok (libgit2 resolves HEAD to a direct reference, on
\* a branch or detached, so head.target() is Some and is pushed),
\* "unresolved" for Err (HEAD is missing or names an unborn branch); then
\* revwalk.push_head() is called, which resolves HEAD the same way and
\* returns the same error.
StartOfWalk(head) ==
    IF head = "direct" THEN [pushed |-> TRUE, walk |-> RevWalk]
    ELSE [pushed |-> FALSE, walk |-> <<>>]

\* analyze_commits up to the batch loop: head resolution, walk, collect,
\* sample.  The configuration (env.max_commits) is not passed to GitAnalyzer.
WalkCommits ==
    /\ pc = "revwalk"
    /\ handle_reads' = handle_reads + 1
    /\ IF ~StartOfWalk(env.head).pushed /\ OnPushHeadError = "fail"
       THEN /\ Fail("revwalk")
            /\ UNCHANGED commit_oids
       ELSE /\ commit_oids' = sample_commits(StartOfWalk(env.head).walk)
            /\ pc' = IF commit_oids' = <<>> THEN "derive" ELSE "read"
            /\ err' = err
    /\ UNCHANGED <<code_stats, overall_risk, compiled_patterns, scan_results, vulnerabilities, reachable, map_order, env, batch_start, partial_commits, spawned, task, permits,
                   notified, file_results, commit_infos, stats, returned_stats,
                   report_written>>

OnUnreadable_ignore == "ignore"

\* What the sequential phase does with a commit find_commit cannot read:
\* self.repo.find_commit(oid)? returns the error.
OnUnreadable == "fail"

\* The tuple the sequential phase pushes for a commit.
Metadata(oid) ==
    [id |-> oid, message |-> MessageOf(oid),
     author |-> AuthorOf(oid), author_email |-> EmailOf(oid),
     committer |-> AuthorOf(oid), committer_email |-> EmailOf(oid),
     authored_date |-> DateOf(oid), committed_date |-> DateOf(oid)]

\* One turn of `for &oid in batch`: self.repo.find_commit(oid)? and the push.
\* After the last commit of the batch the semaphore and the JoinSet are made.
\* The batch loop is followed for repositories of at most MaxCommits commits.
ReadMetadata ==
    /\ pc = "read"
    /\ Len(commit_oids) <= MaxCommits
    /\ LET oid == commit_oids[batch_start + Len(partial_commits) + 1] IN
       /\ handle_reads' = handle_reads + 1
       /\ IF oid = env.unreadable /\ OnUnreadable = "fail"
          THEN /\ Fail("metadata")
               /\ UNCHANGED <<compiled_patterns, scan_results, vulnerabilities, reachable, map_order, partial_commits, permits, spawned>>
          ELSE /\ partial_commits' = Append(partial_commits, Metadata(oid))
               /\ err' = err
               /\ IF Len(partial_commits') = BatchLen
                  THEN pc' = "spawn" /\ permits' = SemaphorePermits /\ spawned' = 0
                  ELSE pc' = "read" /\ UNCHANGED <<permits, spawned>>
    /\ UNCHANGED <<code_stats, overall_risk, compiled_patterns, scan_results, vulnerabilities, reachable, map_order, env, commit_oids, batch_start, task, notified, file_results,
                   commit_infos, stats, returned_stats, report_written>>

(***************************************************************************)
(* The bounded-concurrent phase: one tokio task per commit of the batch.   *)
(***************************************************************************)
\* join_set.spawn(async move { ... }) for the next commit of partial_commits.
SpawnProbe ==
    /\ pc = "spawn"
    /\ LET oid == partial_commits[spawned + 1].id IN
       task' = [task EXCEPT ![oid] = [IdleTask EXCEPT !.st = "waiting"]]
    /\ spawned' = spawned + 1
    /\ pc' = IF spawned' = Len(partial_commits) THEN "join" ELSE "spawn"
    /\ UNCHANGED <<code_stats, overall_risk, compiled_patterns, scan_results, vulnerabilities, reachable, map_order, err, env, commit_oids, batch_start, partial_commits, permits,
                   notified, file_results, commit_infos, stats, handle_reads,
                   returned_stats, report_written>>

PermitAvailable_always == TRUE

\* Semaphore::acquire completes only while a permit is available.
PermitAvailable == permits > 0

HandleReadsAfterProbe_viaHandle(n) == n + 1

\* The handle reads a probe task makes: it is given the repository path and
\* the commit id as strings and runs `git -C <path>`; it never sees self.repo.
HandleReadsAfterProbe(n) == n

StatsAfterProbe_foldInTask(s, oid, files) ==
    [s EXCEPT !.file_history = update_file_history(@, [id |-> oid, author |-> AuthorOf(oid),
                                    authored_date |-> DateOf(oid), files_changed |-> files])]

\* The RepositoryStats after a probe task has run: the task is not given
\* stats, its value goes to the JoinSet only.
StatsAfterProbe(s, oid, files) == s

\* let _permit = permit.acquire().await.unwrap();
AcquirePermit(oid) ==
    /\ task[oid].st = "waiting"
    /\ PermitAvailable
    /\ task' = [task EXCEPT ![oid].st = "running"]
    /\ permits' = permits - 1
    /\ UNCHANGED <<code_stats, overall_risk, compiled_patterns, scan_results, vulnerabilities, reachable, map_order, pc, err, env, commit_oids, batch_start, partial_commits, spawned,
                   notified, file_results, commit_infos, stats, handle_reads,
                   returned_stats, report_written>>

ReleasePermit_leak(available) == available

\* The drop of _permit at the end of the task, whatever the probe ended with
ReleasePermit(available) == available + 1

ProbeEndState_retryTimeout(fault) == IF fault = "timeout" THEN "waiting" ELSE "finished"

\* .unwrap_or_else(|_| Ok(Vec::new())): a probe that timed out ends its task
\* like any other, with the empty list as its value.
ProbeEndState(fault) == "finished"

\* The rest of the task: timeout(30s, get_changed_files_concurrent(..)), the
\* drop of _permit, and the task's entry into the JoinSet's notified list.
ProbeComplete(oid) ==
    /\ task[oid].st = "running"
    /\ \E run \in ProbeRuns(oid) :
         /\ task' = [task EXCEPT ![oid] = [st |-> ProbeEndState(run.fault), fault |-> run.fault,
                                           files |-> run.files]]
         /\ stats' = StatsAfterProbe(stats, oid, run.files)
    /\ permits' = ReleasePermit(permits)
    /\ notified' = Append(notified, oid)
    /\ handle_reads' = HandleReadsAfterProbe(handle_reads)
    /\ UNCHANGED <<code_stats, overall_risk, compiled_patterns, scan_results, vulnerabilities, reachable, map_order, pc, err, env, commit_oids, batch_start, partial_commits, spawned,
                   file_results, commit_infos, returned_stats, report_written>>

\* The tasks still in the JoinSet.
Outstanding == {o \in Oids : task[o].st \in {"waiting", "running", "finished"}}

JoinSetEmpty_noneReady == notified = <<>>

\* join_next() yields None exactly when the JoinSet holds no task.
JoinSetEmpty == Outstanding = {}

\* One turn of `while let Some(result) = join_set.join_next().await`: the
\* next finished task, in the order the tasks finished.
JoinNext ==
    /\ pc = "join"
    /\ notified # <<>>
    /\ LET oid == Head(notified) IN
       /\ file_results' = Append(file_results,
                                 IF task[oid].fault = "abort" THEN <<>> ELSE task[oid].files)
       /\ task' = [task EXCEPT ![oid].st = "joined"]
    /\ notified' = Tail(notified)
    /\ UNCHANGED <<code_stats, overall_risk, compiled_patterns, scan_results, vulnerabilities, reachable, map_order, pc, err, env, commit_oids, batch_start, partial_commits, spawned,
                   permits, commit_infos, stats, handle_reads, returned_stats,
                   report_written>>

\* The CommitInfo literal: a metadata tuple and a file list.
MakeCommitInfo(m, files) ==
    [id |-> m.id, message |-> m.message, author |-> m.author,
     author_email |-> m.author_email, committer |-> m.committer,
     committer_email |-> m.committer_email, authored_date |-> m.authored_date,
     committed_date |-> m.committed_date, files_changed |-> files,
     insertions |-> 0, deletions |-> 0]

CommitInfoAt_reversed(i) ==
    MakeCommitInfo(partial_commits[Len(partial_commits) + 1 - i], file_results[i])

\* CommitInfo for batch position i.
CommitInfoAt(i) == MakeCommitInfo(partial_commits[i], file_results[i])

\* The end of the collection loop and "combine metadata with file change
\* results": file_results[i] for i over partial_commits (an index past the
\* end of file_results panics).
Combine ==
    /\ pc = "join"
    /\ JoinSetEmpty
    /\ IF Len(file_results) < Len(partial_commits)
       THEN /\ Fail("panic")
            /\ UNCHANGED <<compiled_patterns, scan_results, vulnerabilities, reachable, map_order, commit_infos, partial_commits>>
       ELSE /\ commit_infos' = [i \in 1..Len(partial_commits) |-> CommitInfoAt(i)]
            /\ partial_commits' = <<>>
            /\ pc' = "apply"
            /\ err' = err
    /\ UNCHANGED <<code_stats, overall_risk, compiled_patterns, scan_results, vulnerabilities, reachable, map_order, env, commit_oids, batch_start, spawned, task, permits, notified,
                   file_results, stats, handle_reads, returned_stats, report_written>>

\* One turn of `for commit_info in commit_infos`.
Apply ==
    /\ pc = "apply"
    /\ stats' = apply_commit(stats, Head(commit_infos))
    /\ commit_infos' = Tail(commit_infos)
    /\ pc' = IF commit_infos' = <<>> THEN "sleep" ELSE "apply"
    /\ UNCHANGED <<code_stats, overall_risk, compiled_patterns, scan_results, vulnerabilities, reachable, map_order, err, env, commit_oids, batch_start, partial_commits, spawned,
                   task, permits, notified, file_results, handle_reads,
                   returned_stats, report_written>>

\* tokio::time::sleep(1ms) and the step to the next chunk; the batch's
\* locals (semaphore, JoinSet, file_results) are dropped.
NextBatch ==
    /\ pc = "sleep"
    /\ batch_start' = batch_start + BatchLen
    /\ file_results' = <<>>
    /\ permits' = 0
    /\ spawned' = 0
    /\ pc' = IF batch_start' < Len(commit_oids) THEN "read" ELSE "derive"
    /\ UNCHANGED <<code_stats, overall_risk, compiled_patterns, scan_results, vulnerabilities, reachable, map_order, err, env, commit_oids, partial_commits, task, notified,
                   commit_infos, stats, handle_reads, returned_stats, report_written>>

(***************************************************************************)
(* calculate_derived_stats.  The file_history HashMap is iterated in an    *)
(* order the program does not control: order is one such iteration.        *)
(***************************************************************************)
IterationOrders(m) ==
    {order \in [1..Cardinality(DOMAIN m) -> DOMAIN m] :
        \A i, j \in DOMAIN order : i # j => order[i] # order[j]}

\* Vec::sort_by(|a, b| b.total_changes.cmp(&a.total_changes)): a stable
\* sort, so files of equal churn keep the order they were iterated in.
RECURSIVE insert_by_churn(_, _, _)
insert_by_churn(sorted, path, m) ==
    IF sorted = <<>> THEN <<path>>
    ELSE IF m[Head(sorted)].total_changes >= m[path].total_changes
         THEN <<Head(sorted)>> \o insert_by_churn(Tail(sorted), path, m)
         ELSE <<path>> \o sorted

RECURSIVE sort_by_churn(_, _)
sort_by_churn(order, m) ==
    IF order = <<>> THEN <<>>
    ELSE insert_by_churn(sort_by_churn(SubSeq(order, 1, Len(order) - 1), m),
                         order[Len(order)], m)

high_churn_take_floor(high_churn_threshold) == high_churn_threshold

\* take(high_churn_threshold.max(1))
high_churn_take(high_churn_threshold) ==
    IF high_churn_threshold > 1 THEN high_churn_threshold ELSE 1

calculate_derived_stats(s, order) ==
    LET one_year_ago == NowTime - StaleDays
        files_by_churn == sort_by_churn(order, s.file_history)
        high_churn_threshold == Len(files_by_churn) \div 10
    IN [s EXCEPT
          !.total_authors = Cardinality(DOMAIN s.author_stats),
          !.total_files = Cardinality(DOMAIN s.file_history),
          !.single_author_files =
              @ \o SelectSeq(order, LAMBDA p : Cardinality(s.file_history[p].authors) = 1),
          !.stale_files =
              @ \o SelectSeq(order, LAMBDA p : s.file_history[p].last_commit < one_year_ago),
          !.high_churn_files =
              @ \o Take(files_by_churn, high_churn_take(high_churn_threshold))]

\* The orders the map can be iterated in now: any order the first time, the
\* same order again for as long as the map is not modified.
MapOrders ==
    IF map_order # <<>> THEN {map_order} ELSE IterationOrders(stats.file_history)

CalculateDerivedStats ==
    /\ pc = "derive"
    /\ \E order \in MapOrders :
         /\ stats' = calculate_derived_stats(stats, order)
         /\ map_order' = order
    /\ pc' = "remote"
    /\ UNCHANGED <<code_stats, overall_risk, compiled_patterns, scan_results, vulnerabilities, reachable, err, env, commit_oids, batch_start, partial_commits, spawned,
                   task, permits, notified, file_results, commit_infos,
                   handle_reads, returned_stats, report_written>>

\* detect_remote_url (through the handle), detect_repository_type, Ok(stats).
AnalyzeReturn ==
    /\ pc = "remote"
    /\ handle_reads' = handle_reads + 1
    /\ returned_stats' = TRUE
    /\ pc' = "scan"
    /\ UNCHANGED <<code_stats, overall_risk, compiled_patterns, scan_results, vulnerabilities, reachable, map_order, err, env, commit_oids, batch_start, partial_commits, spawned,
                   task, permits, notified, file_results, commit_infos, stats,
                   report_written>>

(***************************************************************************)
(* PatternEngine::scan_repository.  f64 values: every score the engine     *)
(* computes is the square root of a natural number, and the real sqrt(q)   *)
(* is kept as q, so that products, min and comparisons are exact.          *)
(***************************************************************************)
F64(n) == n * n

\* f64::sqrt, of a value that is a whole number
sqrt(x) == CHOOSE r \in 0..x : r * r = x

SeverityScore_flat(severity) == 1

\* match p.severity { ... } of calculate_risk_score
SeverityScore(severity) ==
    CASE severity = "Critical" -> 9
      [] severity = "High"     -> 7
      [] severity = "Medium"   -> 5
      [] severity = "Low"      -> 3
      [] severity = "Info"     -> 1

RECURSIVE SumScores(_)
SumScores(patterns) ==
    IF patterns = <<>> THEN 0
    ELSE SeverityScore(Head(patterns).severity) + SumScores(Tail(patterns))

cap_score_none(score) == score

\* .min(10.0)
cap_score(score) == Min(score, F64(10))

calculate_risk_score_averaged(patterns, commit) ==
    LET base_score == F64(SumScores(patterns) \div Len(patterns))
        file_multiplier == sqrt(F64(Len(commit.files_changed)))
    IN cap_score(base_score * file_multiplier)

calculate_risk_score(patterns, commit) ==
    LET base_score == F64(SumScores(patterns))
        file_multiplier == sqrt(F64(Len(commit.files_changed)))
        cve_multiplier ==
            IF \E i \in 1..Len(patterns) : patterns[i].pattern_name = "CVE Reference"
            THEN F64(2) ELSE F64(1)
    IN cap_score(base_score * file_multiplier * cve_multiplier)

OnCapturesErr_abort(commit) == TRUE

\* `if let Ok(Some(captures)) = regex.captures(..)`: on Err the loop goes on
\* to the next pattern; does analyze_commit give up on the commit instead?
OnCapturesErr(commit) == FALSE

\* patterns_matched.push(PatternMatch { .. }) with the references so far
PushMatch(acc, pattern, c, refs) ==
    [acc EXCEPT !.patterns_matched =
                    Append(@, [pattern_name |-> pattern.name,
                               matched_text |-> c.text,
                               severity |-> pattern.severity,
                               category |-> pattern.category,
                               file_path |-> "commit_message",
                               cve_references |-> refs]),
                !.cve_references = refs]

\* The body of the loop for a pattern whose captures() answered c.
OnCaptures(acc, pattern, c) ==
    IF ~c.matched THEN acc
    ELSE PushMatch(acc, pattern, c,
             IF pattern.name = "CVE Reference"
             THEN Append(acc.cve_references, "CVE-" \o c.group1)
             ELSE acc.cve_references)

\* The loop of analyze_commit over the patterns from index k on:
\* [patterns_matched, cve_references, failed].
RECURSIVE match_patterns(_, _, _)
match_patterns(k, commit, acc) ==
    IF k > Len(compiled_patterns) THEN acc
    ELSE IF <<compiled_patterns[k].name, commit.id>> \in env.regex_error
    THEN IF OnCapturesErr(commit) THEN [acc EXCEPT !.failed = TRUE]
         ELSE match_patterns(k + 1, commit, acc)
    ELSE match_patterns(k + 1, commit,
             OnCaptures(acc, compiled_patterns[k],
                        RegexOf(compiled_patterns[k])[commit.message]))

NoFinding_never(patterns_matched) == FALSE

\* if patterns_matched.is_empty() { return Ok(None); }
NoFinding(patterns_matched) == patterns_matched = <<>>

\* The value of analyze_commit once the loop has ended with r.
FindingOf(commit, r) ==
    IF r.failed \/ NoFinding(r.patterns_matched) THEN <<>>
    ELSE << [commit_id |-> commit.id,
             commit_message |-> commit.message,
             author |-> commit.author,
             date |-> commit.authored_date,
             files_changed |-> commit.files_changed,
             patterns_matched |-> r.patterns_matched,
             risk_score |-> calculate_risk_score(r.patterns_matched, commit),
             cve_references |-> r.cve_references] >>

\* analyze_commit(commit).ok().flatten(): <<>> for None, <<finding>> for Some.
analyze_commit(commit) ==
    FindingOf(commit,
        match_patterns(1, commit,
            [patterns_matched |-> <<>>, cve_references |-> <<>>, failed |-> FALSE]))

\* The loop of analyze_commit in an engine whose compiled_patterns is
\* patterns, from index k on.
RECURSIVE match_with(_, _, _, _)
match_with(patterns, k, commit, acc) ==
    IF k > Len(patterns) THEN acc
    ELSE IF <<patterns[k].name, commit.id>> \in env.regex_error
    THEN IF OnCapturesErr(commit) THEN [acc EXCEPT !.failed = TRUE]
         ELSE match_with(patterns, k + 1, commit, acc)
    ELSE match_with(patterns, k + 1, commit,
             OnCaptures(acc, patterns[k], RegexOf(patterns[k])[commit.message]))

\* What the loop of analyze_commit ends with in the engine that
\* PatternEngine::new(pattern_set) builds.
matches_under(pattern_set, commit) ==
    match_with(SelectPatterns(pattern_set), 1, commit,
        [patterns_matched |-> <<>>, cve_references |-> <<>>, failed |-> FALSE])

\* par_iter().filter_map(..).collect(): the outputs of the items in the
\* order of the items.
RECURSIVE concat_outputs(_)
concat_outputs(results) ==
    IF results = <<>> THEN <<>>
    ELSE Head(results).out \o concat_outputs(Tail(results))

collect_reversed(results) ==
    concat_outputs([i \in 1..Len(results) |-> results[Len(results) + 1 - i]])

collect(results) == concat_outputs(results)

ScanRunning == {k \in DOMAIN scan_results : scan_results[k].st = "running"}

ScanPending == {k \in DOMAIN scan_results : scan_results[k].st = "pending"}

\* scan_repository as main sees it: the findings of the commits of
\* commit_history, in the order of commit_history.
RECURSIVE scan_repository(_)
scan_repository(commit_history) ==
    IF commit_history = <<>> THEN <<>>
    ELSE analyze_commit(Head(commit_history)) \o scan_repository(Tail(commit_history))

\* pattern_engine.scan_repository(&cli.repo, &git_stats).await?
ScanRepository ==
    /\ pc = "scan"
    /\ vulnerabilities' = scan_repository(stats.commit_history)
    /\ pc' = "report"
    /\ UNCHANGED <<code_stats, overall_risk, compiled_patterns, scan_results, reachable, map_order, err, env,
                   commit_oids, batch_start, partial_commits, spawned, task, permits,
                   notified, file_results, commit_infos, stats, handle_reads,
                   returned_stats, report_written>>

\* scan_repository step by step.  It is entered: one item per commit of
\* commit_history.
ScanEnter ==
    /\ pc = "scan"
    /\ scan_results' = [k \in 1..Len(stats.commit_history) |->
                           [st |-> "pending", out |-> <<>>]]
    /\ pc' = "scanning"
    /\ UNCHANGED <<code_stats, overall_risk, compiled_patterns, vulnerabilities, reachable, map_order, err, env,
                   commit_oids, batch_start, partial_commits, spawned, task, permits,
                   notified, file_results, commit_infos, stats, handle_reads,
                   returned_stats, report_written>>

\* A thread of the rayon pool takes item k.  The slice is split in halves
\* with join: one thread alone runs them left to right, more threads steal
\* halves from each other and run them in any order.
WorkerTakes(k) ==
    /\ pc = "scanning"
    /\ k \in ScanPending
    /\ Cardinality(ScanRunning) < env.threads
    /\ env.threads = 1 => \A j \in ScanPending : k <= j
    /\ scan_results' = [scan_results EXCEPT ![k].st = "running"]
    /\ UNCHANGED <<code_stats, overall_risk, compiled_patterns, vulnerabilities, reachable, map_order, pc, err, env,
                   commit_oids, batch_start, partial_commits, spawned, task, permits,
                   notified, file_results, commit_infos, stats, handle_reads,
                   returned_stats, report_written>>

\* The closure of filter_map has run on item k.
WorkerDone(k) ==
    /\ pc = "scanning"
    /\ k \in ScanRunning
    /\ scan_results' = [scan_results EXCEPT
                           ![k] = [st |-> "done",
                                   out |-> analyze_commit(stats.commit_history[k])]]
    /\ UNCHANGED <<code_stats, overall_risk, compiled_patterns, vulnerabilities, reachable, map_order, pc, err, env,
                   commit_oids, batch_start, partial_commits, spawned, task, permits,
                   notified, file_results, commit_infos, stats, handle_reads,
                   returned_stats, report_written>>

\* collect() has every item: Ok(findings) goes back to main.
ScanCollect ==
    /\ pc = "scanning"
    /\ \A k \in DOMAIN scan_results : scan_results[k].st = "done"
    /\ vulnerabilities' = collect(scan_results)
    /\ pc' = "report"
    /\ UNCHANGED <<code_stats, overall_risk, compiled_patterns, scan_results, reachable, map_order, err, env,
                   commit_oids, batch_start, partial_commits, spawned, task, permits,
                   notified, file_results, commit_infos, stats, handle_reads,
                   returned_stats, report_written>>

(***************************************************************************)
(* analysis/mod.rs: CombinedFindings::calculate_overall_risk.  An f64 of   *)
(* this computation is a non-negative rational n/d in lowest terms, the    *)
(* positive infinity, or NaN; the rounding of f64 is left out.             *)
(***************************************************************************)
RECURSIVE Gcd(_, _)
Gcd(a, b) == IF b = 0 THEN a ELSE Gcd(b, a % b)

Reduced(n, d, g) == [kind |-> "num", n |-> n \div g, d |-> d \div g]

Num(n, d) == Reduced(n, d, Gcd(n, d))

NaN == [kind |-> "nan", n |-> 0, d |-> 1]

Infinity == [kind |-> "inf", n |-> 1, d |-> 1]

\* `x as f64` of a usize
as_f64(x) == Num(x, 1)

IsNaN(a) == a.kind = "nan"

\* a + b
f64_add(a, b) ==
    IF IsNaN(a) \/ IsNaN(b) THEN NaN
    ELSE IF a.kind = "inf" \/ b.kind = "inf" THEN Infinity
    ELSE Num(a.n * b.d + b.n * a.d, a.d * b.d)

\* a * b: infinity times zero is NaN
f64_mul(a, b) ==
    IF IsNaN(a) \/ IsNaN(b) THEN NaN
    ELSE IF a.kind = "inf" THEN (IF b.kind = "num" /\ b.n = 0 THEN NaN ELSE Infinity)
    ELSE IF b.kind = "inf" THEN (IF a.n = 0 THEN NaN ELSE Infinity)
    ELSE Num(a.n * b.n, a.d * b.d)

\* a / b: 0.0 / 0.0 is NaN, x / 0.0 is infinity for x > 0
f64_div(a, b) ==
    IF IsNaN(a) \/ IsNaN(b) THEN NaN
    ELSE IF a.kind = "inf" THEN (IF b.kind = "inf" THEN NaN ELSE Infinity)
    ELSE IF b.kind = "inf" THEN Num(0, 1)
    ELSE IF b.n = 0 THEN (IF a.n = 0 THEN NaN ELSE Infinity)
    ELSE Num(a.n * b.d, a.d * b.n)

\* a < b: false when either is NaN
f64_lt(a, b) ==
    /\ ~IsNaN(a)
    /\ ~IsNaN(b)
    /\ a.kind = "num"
    /\ (b.kind = "inf" \/ a.n * b.d < b.n * a.d)

f64_min_byCompare(a, b) == IF f64_lt(b, a) THEN b ELSE a

\* f64::min: "if one of the arguments is NaN, then the other argument is
\* returned"
f64_min(a, b) ==
    IF IsNaN(a) THEN b
    ELSE IF IsNaN(b) THEN a
    ELSE IF f64_lt(b, a) THEN b ELSE a

\* list.len() as f64 / self.git_stats.total_files as f64
git_ratio(list, total_files) == f64_div(as_f64(Len(list)), as_f64(total_files))

calculate_git_risks(git_stats) ==
    f64_add(
        f64_add(
            f64_add(Num(0, 1),
                    f64_mul(git_ratio(git_stats.single_author_files, git_stats.total_files),
                            Num(2, 1))),
            f64_mul(git_ratio(git_stats.stale_files, git_stats.total_files), Num(3, 2))),
        f64_mul(git_ratio(git_stats.high_churn_files, git_stats.total_files), Num(1, 1)))

\* file_complexity.values().filter(|c| c.cyclomatic_complexity > 10.0).count()
high_complexity_count(file_complexity) ==
    Cardinality({f \in DOMAIN file_complexity :
                    file_complexity[f].cyclomatic_complexity > 10})

calculate_code_risks(stats_of_code) ==
    f64_add(
        f64_add(
            f64_add(Num(0, 1),
                    f64_mul(f64_div(as_f64(high_complexity_count(stats_of_code.file_complexity)),
                                    as_f64(stats_of_code.total_files)),
                            Num(2, 1))),
            f64_min(f64_mul(as_f64(Len(stats_of_code.dependency_analysis.outdated_dependencies)),
                            Num(1, 10)),
                    Num(1, 1))),
        f64_mul(as_f64(Len(stats_of_code.dependency_analysis.vulnerable_dependencies)),
                Num(1, 2)))

\* v.risk_score as the f64 it is: the finding keeps the square of its score
risk_score_f64(v) == as_f64(sqrt(v.risk_score))

\* .map(|v| v.risk_score / 10.0).sum::<f64>()
RECURSIVE sum_normalized(_)
sum_normalized(findings) ==
    IF findings = <<>> THEN Num(0, 1)
    ELSE f64_add(f64_div(risk_score_f64(Head(findings)), Num(10, 1)),
                 sum_normalized(Tail(findings)))

calculate_vulnerability_risks(findings) ==
    f64_min(sum_normalized(findings), Num(5, 1))

SumOfRisks(git, code, vulnerability) ==
    f64_add(f64_add(f64_add(Num(0, 1), git), code), vulnerability)

\* calculate_overall_risk, with the three sub-scores it adds up
OverallOf(git, code, vulnerability) ==
    [git |-> git, code |-> code, vulnerability |-> vulnerability,
     overall |-> f64_min(SumOfRisks(git, code, vulnerability), Num(10, 1))]

calculate_overall_risk(git_stats, stats_of_code, findings) ==
    OverallOf(calculate_git_risks(git_stats),
              calculate_code_risks(stats_of_code),
              calculate_vulnerability_risks(findings))

\* CodeStats::default()
CodeStats_default ==
    [total_lines |-> 0, total_files |-> 0, file_complexity |-> EmptyMap,
     dependency_analysis |-> [total_dependencies |-> 0,
                              outdated_dependencies |-> <<>>,
                              vulnerable_dependencies |-> <<>>]]

\* A file_complexity map of m files, the first h of them of cyclomatic
\* complexity 15 and the others of 5.
ComplexityOf(m, h) ==
    [f \in SeqToSet(FileNames(m)) |->
        [cyclomatic_complexity |->
            IF \E k \in 1..h : FileNames(m)[k] = f THEN 15 ELSE 5]]

\* What CodeAnalyzer::analyze can return: total_files is the sum of tokei's
\* per-language file counts, file_complexity comes from a walk of its own,
\* and analyze_dependencies leaves both dependency lists empty.
AnalyzedCodeStats ==
    {[total_lines |-> 10 * t, total_files |-> t, file_complexity |-> ComplexityOf(m, h),
      dependency_analysis |-> [total_dependencies |-> 0,
                               outdated_dependencies |-> <<>>,
                               vulnerable_dependencies |-> <<>>]]
        : t \in 0..MaxCodeFiles, m \in 0..MaxCodeFiles, h \in 0..MaxCodeFiles}

\* let code_stats = if cli.stats { code_analyzer.analyze(..).await? }
\*                  else { analysis::CodeStats::default() };
CodeAnalysis ==
    /\ pc = "code_stats"
    /\ \E analyzed \in AnalyzedCodeStats :
         code_stats' = << IF env.stats THEN analyzed ELSE CodeStats_default >>
    /\ pc' = "scan"
    /\ UNCHANGED <<overall_risk, compiled_patterns, scan_results, vulnerabilities, reachable,
                   map_order, err, env, commit_oids, batch_start, partial_commits, spawned,
                   task, permits, notified, file_results, commit_infos, stats,
                   handle_reads, returned_stats, report_written>>

\* html.rs: let overall_risk = findings.calculate_overall_risk();
CalculateOverallRisk ==
    /\ pc = "report"
    /\ code_stats # <<>>
    /\ overall_risk' = << calculate_overall_risk(stats, code_stats[1], vulnerabilities) >>
    /\ pc' = "render"
    /\ UNCHANGED <<code_stats, compiled_patterns, scan_results, vulnerabilities, reachable,
                   map_order, err, env, commit_oids, batch_start, partial_commits, spawned,
                   task, permits, notified, file_results, commit_infos, stats,
                   handle_reads, returned_stats, report_written>>

\* Reporter::generate_report: fs::write(&self.output_path, content)
GenerateReport ==
    /\ pc = "report"
    /\ report_written' = TRUE
    /\ pc' = "done"
    /\ UNCHANGED <<code_stats, overall_risk, compiled_patterns, scan_results, vulnerabilities, reachable, map_order, err, env, commit_oids, batch_start, partial_commits, spawned,
                   task, permits, notified, file_results, commit_infos, stats,
                   handle_reads, returned_stats>>

Next ==
    \/ PatternEngineNew
    \/ GitAnalyzerNew
    \/ ReporterNew
    \/ AnalyzeBranches
    \/ WalkCommits
    \/ ReadMetadata
    \/ SpawnProbe
    \/ \E oid \in Oids : AcquirePermit(oid)
    \/ \E oid \in Oids : ProbeComplete(oid)
    \/ JoinNext
    \/ Combine
    \/ Apply
    \/ NextBatch
    \/ CalculateDerivedStats
    \/ AnalyzeReturn
    \/ ScanRepository
    \/ GenerateReport

Spec == Init /\ [][Next]_vars

(***************************************************************************)
(* The same run over more inputs: repositories around the sampling         *)
(* threshold, and a configuration whose AnalysisConfig.max_commits is      *)
(* Some(CommitCap) (Config::default() has None).                           *)
(***************************************************************************)
LargeCounts ==
    {MAX_COMMITS_FOR_FULL_ANALYSIS + d : d \in (0 - 1)..SampleSlack}

InitInputs ==
    /\ pc = "pattern_engine"
    /\ err = "none"
    /\ reachable \in {MaxCommits} \cup LargeCounts
    /\ map_order = <<>>
    /\ env \in [repo_opens : {TRUE}, patterns_compile : {TRUE},
                unreadable : {0}, max_commits : {0, CommitCap},
                stale_days : {StaleDays}, patterns : {"vuln"}, threads : {1},
                regex_error : {{}}, stats : {FALSE},
                head : {"direct"}]
    /\ commit_oids = <<>>
    /\ batch_start = 0
    /\ partial_commits = <<>>
    /\ spawned = 0
    /\ task = [o \in Oids |-> IdleTask]
    /\ permits = 0
    /\ notified = <<>>
    /\ file_results = <<>>
    /\ commit_infos = <<>>
    /\ stats = InitialStats
    /\ handle_reads = 0
    /\ returned_stats = FALSE
    /\ report_written = FALSE
    /\ compiled_patterns = <<>>
    /\ scan_results = <<>>
    /\ vulnerabilities = <<>>
    /\ code_stats = <<>>
    /\ overall_risk = <<>>

SpecInputs == InitInputs /\ [][Next]_vars

(***************************************************************************)
(* The probe and the fold as functions of what git prints: a commit's      *)
(* CommitInfo is made from the value of get_changed_files_concurrent and   *)
(* applied, for outputs that are longer than MAX_FILES_PER_COMMIT, hold    *)
(* blank lines, or hold names that are not UTF-8.                          *)
(***************************************************************************)
OutputLines ==
    {FileNames(n) : n \in 0..LineSlack}
    \cup {FileNames(MAX_FILES_PER_COMMIT + d) : d \in 1..LineSlack}
    \cup {<<"">> \o FileNames(MAX_FILES_PER_COMMIT + d) : d \in 0..LineSlack}
    \cup {<<"n\\xfe.txt", "n\\xff.txt">>, <<"f1", "n\\xfe.txt">>}

\* What cmd.output().await can be.
Outputs(lines) ==
    {[started |-> FALSE, success |-> FALSE, lines |-> <<>>],
     [started |-> TRUE, success |-> FALSE, lines |-> <<>>]}
    \cup {[started |-> TRUE, success |-> TRUE, lines |-> l] : l \in lines}

InitFold ==
    /\ pc = "fold"
    /\ err = "none"
    /\ reachable = MaxFold
    /\ map_order = <<>>
    /\ env = [repo_opens |-> TRUE, patterns_compile |-> TRUE,
              unreadable |-> 0, max_commits |-> 0, stale_days |-> StaleDays,
              patterns |-> "vuln", threads |-> 1, regex_error |-> {},
              stats |-> FALSE, head |-> "direct"]
    /\ commit_oids = [i \in 1..MaxFold |-> i]
    /\ batch_start = 0
    /\ partial_commits = <<>>
    /\ spawned = 0
    /\ task = [o \in Oids |-> IdleTask]
    /\ permits = 0
    /\ notified = <<>>
    /\ file_results = <<>>
    /\ commit_infos = <<>>
    /\ stats = InitialStats
    /\ handle_reads = 0
    /\ returned_stats = FALSE
    /\ report_written = FALSE
    /\ compiled_patterns = <<>>
    /\ scan_results = <<>>
    /\ vulnerabilities = <<>>
    /\ code_stats = <<>>
    /\ overall_risk = <<>>

\* The next commit of the walk: its probe returns the value of
\* get_changed_files_concurrent for some output of its two commands, the
\* value becomes files_changed of its CommitInfo, and the commit is applied.
FoldProbe ==
    /\ pc = "fold"
    /\ Len(stats.commit_history) < MaxFold
    /\ \E diff \in Outputs(OutputLines),
          show \in Outputs({<<>>, <<"">> \o FileNames(MAX_FILES_PER_COMMIT + 1)}) :
         LET oid == commit_oids[Len(stats.commit_history) + 1] IN
         stats' = apply_commit(stats,
                      MakeCommitInfo(Metadata(oid), GetChangedFilesConcurrent(diff, show)))
    /\ UNCHANGED <<code_stats, overall_risk, compiled_patterns, scan_results, vulnerabilities, reachable, map_order, pc, err, env, commit_oids, batch_start,
                   partial_commits, spawned, task, permits, notified, file_results,
                   commit_infos, handle_reads, returned_stats, report_written>>

NextFold == FoldProbe

SpecFold == InitFold /\ [][NextFold]_vars

(***************************************************************************)
(* calculate_derived_stats as a function of the FileHistory map: stats     *)
(* whose file_history holds 0..MaxFiles files, derived once as analyze     *)
(* does and then a second time over the unmodified map.                    *)
(***************************************************************************)
ChurnProfiles == {"flat", "rising", "mixed"}

ChurnOf(profile, i) ==
    IF profile = "flat" THEN 1
    ELSE IF profile = "rising" THEN i
    ELSE (i % 3) + 1

FileHistoryOf(n, profile) ==
    [p \in SeqToSet(FileNames(n)) |->
        LET i == CHOOSE k \in 1..n : FileNames(n)[k] = p IN
        [path |-> p,
         commits |-> [k \in 1..ChurnOf(profile, i) |-> k],
         authors |-> IF i % 2 = 1 THEN {"alice"} ELSE {"alice", "bob"},
         total_changes |-> ChurnOf(profile, i),
         first_commit |-> NowTime - 150 * ((i % 5) + 1),
         last_commit |-> NowTime - 150 * (i % 5)]]

\* Iteration orders of a map of n files: three of the n! the hasher can give.
SomeOrders(n) ==
    {FileNames(n),
     [i \in 1..n |-> FileNames(n)[n + 1 - i]],
     [i \in 1..n |-> FileNames(n)[(i % n) + 1]]}

InitDerive ==
    /\ pc = "derive"
    /\ err = "none"
    /\ reachable = MaxCommits
    /\ env \in [repo_opens : {TRUE}, patterns_compile : {TRUE},
                unreadable : {0}, max_commits : {0},
                stale_days : {StaleDays, OtherStaleDays}, patterns : {"vuln"},
                threads : {1}, regex_error : {{}}, stats : {FALSE},
                head : {"direct"}]
    /\ commit_oids = <<>>
    /\ batch_start = 0
    /\ partial_commits = <<>>
    /\ spawned = 0
    /\ task = [o \in Oids |-> IdleTask]
    /\ permits = 0
    /\ notified = <<>>
    /\ file_results = <<>>
    /\ commit_infos = <<>>
    /\ handle_reads = 0
    /\ returned_stats = FALSE
    /\ report_written = FALSE
    /\ compiled_patterns = <<>>
    /\ scan_results = <<>>
    /\ vulnerabilities = <<>>
    /\ code_stats = <<>>
    /\ overall_risk = <<>>
    /\ \E n \in 0..MaxFiles, profile \in ChurnProfiles :
         /\ stats = [InitialStats EXCEPT !.file_history = FileHistoryOf(n, profile)]
         /\ map_order \in SomeOrders(n)

\* calculate_derived_stats(&mut stats) called again on the stats it has
\* already filled, the map unmodified and so iterated in the same order.
RecalculateDerivedStats ==
    /\ pc = "remote"
    /\ stats' = calculate_derived_stats(stats, map_order)
    /\ pc' = "rederived"
    /\ UNCHANGED <<code_stats, overall_risk, compiled_patterns, scan_results, vulnerabilities, reachable, map_order, err, env, commit_oids, batch_start,
                   partial_commits, spawned, task, permits, notified, file_results,
                   commit_infos, handle_reads, returned_stats, report_written>>

NextDerive ==
    \/ CalculateDerivedStats
    \/ RecalculateDerivedStats

SpecDerive == InitDerive /\ [][NextDerive]_vars

(***************************************************************************)
(* The pattern engine over more inputs: every --patterns value, pools of   *)
(* one or more threads, regexes that fail on a commit, and histories made  *)
(* of the messages of CommitMessages; scan_repository runs step by step.   *)
(***************************************************************************)
ProfileNames == {"vuln", "memory", "memorysafety", "crypto", "web", "all", "bogus"}

RegexErrors ==
    {{}, {<<"CVE Reference", 1>>},
     {<<"Authentication Bypass", 1>>, <<"Buffer Overflow", 2>>, <<"Use After Free", 2>>}}

\* A commit_history of n commits: commit k carries the message at k + shift
\* of MessageList and changes (k + files) % 3 files.
HistoryOf(n, shift, files) ==
    [k \in 1..n |->
        MakeCommitInfo(
            [id |-> k,
             message |-> MessageList[((k + shift) % Len(MessageList)) + 1],
             author |-> AuthorOf(k), author_email |-> EmailOf(k),
             committer |-> AuthorOf(k), committer_email |-> EmailOf(k),
             authored_date |-> DateOf(k), committed_date |-> DateOf(k)],
            FileNames((k + files) % 3))]

ScanHistories ==
    {HistoryOf(n, shift, files) :
        n \in 0..MaxScan, shift \in 0..(Len(MessageList) - 1), files \in 0..2}

InitScan ==
    /\ pc = "pattern_engine"
    /\ err = "none"
    /\ reachable = MaxCommits
    /\ map_order = <<>>
    /\ env \in [repo_opens : {TRUE}, patterns_compile : {TRUE},
                unreadable : {0}, max_commits : {0}, stale_days : {StaleDays},
                patterns : ProfileNames, threads : 1..MaxThreads,
                regex_error : RegexErrors, stats : {FALSE},
                head : {"direct"}]
    /\ commit_oids = <<>>
    /\ batch_start = 0
    /\ partial_commits = <<>>
    /\ spawned = 0
    /\ task = [o \in Oids |-> IdleTask]
    /\ permits = 0
    /\ notified = <<>>
    /\ file_results = <<>>
    /\ commit_infos = <<>>
    /\ stats = InitialStats
    /\ handle_reads = 0
    /\ returned_stats = FALSE
    /\ report_written = FALSE
    /\ compiled_patterns = <<>>
    /\ scan_results = <<>>
    /\ vulnerabilities = <<>>
    /\ code_stats = <<>>
    /\ overall_risk = <<>>

\* git_analyzer.analyze().await? has returned stats with some commit_history.
AnalyzeReturns ==
    /\ pc = "git_analyzer"
    /\ \E history \in ScanHistories :
         stats' = [stats EXCEPT !.commit_history = history,
                                !.total_commits = Len(history)]
    /\ returned_stats' = TRUE
    /\ pc' = "scan"
    /\ UNCHANGED <<code_stats, overall_risk, compiled_patterns, scan_results, vulnerabilities, reachable, map_order,
                   err, env, commit_oids, batch_start, partial_commits, spawned, task,
                   permits, notified, file_results, commit_infos, handle_reads,
                   report_written>>

NextScan ==
    \/ PatternEngineNew
    \/ AnalyzeReturns
    \/ ScanEnter
    \/ \E k \in 1..MaxScan : WorkerTakes(k)
    \/ \E k \in 1..MaxScan : WorkerDone(k)
    \/ ScanCollect
    \/ GenerateReport

SpecScan == InitScan /\ [][NextScan]_vars

(***************************************************************************)
(* The whole run on the three-commit history: the head (id 1) touches      *)
(* file2.txt with "CVE-2022-0001 auth bypass", its parent (id 2) touches   *)
(* file1.txt and file2.txt with "routine update", the root (id 3) touches  *)
(* file1.txt with "fix buffer overflow"; default and full pattern profile. *)
(***************************************************************************)
InitScenario ==
    /\ pc = "pattern_engine"
    /\ err = "none"
    /\ reachable = 3
    /\ map_order = <<>>
    /\ env \in [repo_opens : {TRUE}, patterns_compile : {TRUE},
                unreadable : {0}, max_commits : {0}, stale_days : {StaleDays},
                patterns : {"vuln", "all"}, threads : {1}, regex_error : {{}}, stats : {FALSE},
                head : {"direct"}]
    /\ commit_oids = <<>>
    /\ batch_start = 0
    /\ partial_commits = <<>>
    /\ spawned = 0
    /\ task = [o \in Oids |-> IdleTask]
    /\ permits = 0
    /\ notified = <<>>
    /\ file_results = <<>>
    /\ commit_infos = <<>>
    /\ stats = InitialStats
    /\ handle_reads = 0
    /\ returned_stats = FALSE
    /\ report_written = FALSE
    /\ compiled_patterns = <<>>
    /\ scan_results = <<>>
    /\ vulnerabilities = <<>>
    /\ code_stats = <<>>
    /\ overall_risk = <<>>

SpecScenario == InitScenario /\ [][Next]_vars

(***************************************************************************)
(* The combined risk as a function of its inputs.  main's path: git stats  *)
(* of 0..MaxRiskFiles files, code statistics collected or not (--stats),   *)
(* the scan of an empty commit_history.  And CombinedFindings values as a  *)
(* caller can build them (the struct and its fields are pub): any          *)
(* dependency lists, one or more findings with whole risk scores.          *)
(***************************************************************************)
Dependencies(n) == [i \in 1..n |-> [name |-> "dep" \o ToString(i)]]

\* <<outdated, vulnerable>> dependency counts
DependencyCounts ==
    {<<0, 0>>, <<1, 1>>, <<MaxDependencies, 0>>, <<0, MaxDependencies>>}

GivenCodeStats ==
    {[c EXCEPT !.dependency_analysis.outdated_dependencies = Dependencies(n[1]),
               !.dependency_analysis.vulnerable_dependencies = Dependencies(n[2])]
        : c \in AnalyzedCodeStats, n \in DependencyCounts}

\* n findings of risk score r
FindingsOf(n, r) ==
    [k \in 1..n |->
        [commit_id |-> k, commit_message |-> "fix buffer overflow",
         author |-> AuthorOf(k), date |-> DateOf(k), files_changed |-> <<"f1">>,
         patterns_matched |-> <<>>, risk_score |-> F64(r), cve_references |-> <<>>]]

GivenFindingLists == {FindingsOf(n, r) : n \in 1..MaxFindings, r \in {3, 10}}

InitRisk ==
    /\ pc = "code_stats"
    /\ err = "none"
    /\ reachable = MaxCommits
    /\ env \in [repo_opens : {TRUE}, patterns_compile : {TRUE},
                unreadable : {0}, max_commits : {0}, stale_days : {StaleDays},
                patterns : {"vuln"}, threads : {1}, regex_error : {{}},
                stats : BOOLEAN, head : {"direct"}]
    /\ commit_oids = <<>>
    /\ batch_start = 0
    /\ partial_commits = <<>>
    /\ spawned = 0
    /\ task = [o \in Oids |-> IdleTask]
    /\ permits = 0
    /\ notified = <<>>
    /\ file_results = <<>>
    /\ commit_infos = <<>>
    /\ handle_reads = 0
    /\ returned_stats = TRUE
    /\ report_written = FALSE
    /\ compiled_patterns = get_vuln_patterns
    /\ scan_results = <<>>
    /\ vulnerabilities = <<>>
    /\ code_stats = <<>>
    /\ overall_risk = <<>>
    /\ \E n \in 0..MaxRiskFiles :
         /\ map_order = FileNames(n)
         /\ stats = calculate_derived_stats(
                        [InitialStats EXCEPT !.file_history = FileHistoryOf(n, "rising")],
                        FileNames(n))

\* A CombinedFindings { git_stats, code_stats, vulnerabilities, config } built
\* from given parts.
GivenFindings ==
    /\ pc = "code_stats"
    /\ \E given \in GivenCodeStats : code_stats' = <<given>>
    /\ vulnerabilities' \in GivenFindingLists
    /\ pc' = "report"
    /\ UNCHANGED <<overall_risk, compiled_patterns, scan_results, reachable,
                   map_order, err, env, commit_oids, batch_start, partial_commits, spawned,
                   task, permits, notified, file_results, commit_infos, stats,
                   handle_reads, returned_stats, report_written>>

NextRisk ==
    \/ CodeAnalysis
    \/ ScanRepository
    \/ GivenFindings
    \/ CalculateOverallRisk

SpecRisk == InitRisk /\ [][NextRisk]_vars

(***************************************************************************)
(* The fold as a function of the commits' metadata: author names and       *)
(* e-mail addresses that hold a ':', author dates before the epoch, in the *)
(* past of the scan, and after the scan's start (NowTime).                 *)
(***************************************************************************)
\* <<name, e-mail>> as git stores them in the author line
AuthorIdentities ==
    {<<"dev:ops", "x@example.org">>, <<"dev", "ops:x@example.org">>,
     <<"dev", "x@example.org">>}

AuthorDates == {0 - DateSlack, NowTime \div 2, NowTime + DateSlack}

\* The tuple the sequential phase pushes for commit oid of the given author
\* and author date (the committer is the author).
MetadataOf(oid, identity, date) ==
    [id |-> oid, message |-> "routine update",
     author |-> identity[1], author_email |-> identity[2],
     committer |-> identity[1], committer_email |-> identity[2],
     authored_date |-> date, committed_date |-> date]

\* The next commit of the walk is applied; its probe listed f1, and f2 too
\* for an even id.
FoldAuthored ==
    /\ pc = "fold"
    /\ Len(stats.commit_history) < MaxAuthored
    /\ \E identity \in AuthorIdentities, date \in AuthorDates :
         LET oid == Len(stats.commit_history) + 1 IN
         stats' = apply_commit(stats,
                      MakeCommitInfo(MetadataOf(oid, identity, date),
                                     FileNames(2 - (oid % 2))))
    /\ UNCHANGED <<code_stats, overall_risk, compiled_patterns, scan_results, vulnerabilities,
                   reachable, map_order, pc, err, env, commit_oids, batch_start,
                   partial_commits, spawned, task, permits, notified, file_results,
                   commit_infos, handle_reads, returned_stats, report_written>>

NextAuthored == FoldAuthored

SpecAuthored == InitFold /\ [][NextAuthored]_vars

(***************************************************************************)
(* Progress of the scan.  The run over a repository with one commit more   *)
(* than there are permits, so that a task has to wait for one; nothing     *)
(* fails but the probes.  The main task runs its next step when it can;    *)
(* the tokio runtime polls every spawned task, so a task that can take a   *)
(* permit and stays able to does take it; and every probe finishes or      *)
(* reaches its timeout.                                                    *)
(***************************************************************************)
InitLive ==
    /\ pc = "pattern_engine"
    /\ err = "none"
    /\ reachable = SemaphorePermits + 1
    /\ map_order = <<>>
    /\ env \in [repo_opens : {TRUE}, patterns_compile : {TRUE},
                unreadable : {0}, max_commits : {0}, stale_days : {StaleDays},
                patterns : {"vuln"}, threads : {1}, regex_error : {{}},
                stats : {FALSE}, head : {"direct"}]
    /\ commit_oids = <<>>
    /\ batch_start = 0
    /\ partial_commits = <<>>
    /\ spawned = 0
    /\ task = [o \in Oids |-> IdleTask]
    /\ permits = 0
    /\ notified = <<>>
    /\ file_results = <<>>
    /\ commit_infos = <<>>
    /\ stats = InitialStats
    /\ handle_reads = 0
    /\ returned_stats = FALSE
    /\ report_written = FALSE
    /\ compiled_patterns = <<>>
    /\ scan_results = <<>>
    /\ vulnerabilities = <<>>
    /\ code_stats = <<>>
    /\ overall_risk = <<>>

\* The steps of the main task
MainSteps ==
    \/ PatternEngineNew
    \/ GitAnalyzerNew
    \/ ReporterNew
    \/ AnalyzeBranches
    \/ WalkCommits
    \/ ReadMetadata
    \/ SpawnProbe
    \/ JoinNext
    \/ Combine
    \/ Apply
    \/ NextBatch
    \/ CalculateDerivedStats
    \/ AnalyzeReturn
    \/ ScanRepository
    \/ GenerateReport

Scheduling ==
    /\ WF_vars(MainSteps)
    /\ \A oid \in Oids : WF_vars(AcquirePermit(oid))
    /\ \A oid \in Oids : WF_vars(ProbeComplete(oid))

SpecLive == InitLive /\ [][Next]_vars /\ Scheduling

(***************************************************************************)
(* Properties of the extraction engine.                                    *)
(***************************************************************************)
\* What the probe spawned for a commit handed to the collection loop.
ProbeValue(oid) == IF task[oid].fault = "abort" THEN <<>> ELSE task[oid].files

Probed(oid) == task[oid].st \in {"finished", "joined"}

Running == {o \in Oids : task[o].st = "running"}

\* The walk positions of the batch that holds walk position k.
BatchOf(k) == {j \in 1..Len(commit_oids) : (j - 1) \div batch_size = (k - 1) \div batch_size}

CurrentBatch == {commit_oids[k] : k \in (batch_start + 1)..(batch_start + BatchLen)}

\* C1: the files_changed of every commit record is the value of the probe
\* that was spawned for that very commit, whatever the order in which the
\* probes of the batch finished.
C1_FilesByBatchPosition ==
    \A k \in 1..Len(stats.commit_history) :
        stats.commit_history[k].files_changed = ProbeValue(stats.commit_history[k].id)

\* C2: in a folded batch in which exactly one probe timed out, every commit
\* has its record with its own metadata, the timed-out commit has no files
\* and every other commit has the files its own probe returned.
C2_OneTimeoutOnlyEmptiesItsCommit ==
    \A k \in 1..Len(stats.commit_history) :
        LET batch == BatchOf(k)
            timed == {j \in batch : task[commit_oids[j]].fault = "timeout"}
            c == stats.commit_history[k]
        IN (/\ \A j \in batch : j <= Len(stats.commit_history)
            /\ Cardinality(timed) = 1)
           => /\ c.id = commit_oids[k]
              /\ c.message = MessageOf(c.id) /\ c.author = AuthorOf(c.id)
              /\ c.authored_date = DateOf(c.id)
              /\ c.files_changed = IF k \in timed THEN <<>> ELSE ProbeValue(c.id)

\* C3: the probes that hold a permit never outnumber the permit pool, and
\* every permit is either held by a running probe or back in the pool.
C3_PermitPoolBound ==
    /\ Cardinality(Running) <= SemaphorePermits
    /\ pc \in {"spawn", "join", "apply", "sleep"}
         => permits + Cardinality(Running) = SemaphorePermits

C3_Witness ==
    /\ Cardinality(Running) = SemaphorePermits
    /\ \E o \in Oids : task[o].st = "waiting"

\* C4: batches never overlap: every probe in flight belongs to the current
\* batch, no probe of a later batch has been spawned, a batch's metadata is
\* read only when every earlier batch is folded and nothing of it is left,
\* and at most one batch of probe results exists.
C4_BatchesSequential ==
    /\ \A o \in Outstanding : o \in CurrentBatch /\ pc \in {"spawn", "join"}
    /\ \A k \in 1..Len(commit_oids) :
         k > batch_start + BatchLen => task[commit_oids[k]].st = "idle"
    /\ pc = "read" => /\ Len(stats.commit_history) = batch_start
                      /\ file_results = <<>> /\ commit_infos = <<>>
                      /\ notified = <<>>
    /\ Cardinality(Outstanding) + Len(file_results) <= batch_size

C4_Witness ==
    /\ pc = "read"
    /\ batch_start > 0
    /\ \E o \in Oids : task[o].st = "joined" /\ task[o].fault = "timeout"

\* C5: a read through the repository handle is never made by a probe task
\* and never while a probe task is still in the JoinSet.
C5_HandleSingleOwner ==
    [][handle_reads' # handle_reads => (Outstanding = {} /\ task' = task)]_vars

C5_Witness ==
    /\ pc = "read"
    /\ batch_start > 0
    /\ partial_commits # <<>>

\* C6: RepositoryStats is written by the apply loop alone, and only when no
\* probe task of the batch is left in the JoinSet.
C6_SingleWriterAfterProbes ==
    [][(\/ stats'.author_stats # stats.author_stats
        \/ stats'.file_history # stats.file_history
        \/ stats'.commit_history # stats.commit_history)
         => (pc = "apply" /\ Outstanding = {} /\ notified = <<>> /\ task' = task)]_vars

C6_Witness ==
    /\ pc = "apply"
    /\ stats.author_stats # EmptyMap
    /\ stats.file_history # EmptyMap
    /\ batch_start > 0

C8_RootCommitListsTree ==
    \A o \in Oids :
        (~HasParent(o) /\ Probed(o) /\ task[o].fault = "none")
            => task[o].files = TreeChange(o)

\* C9: an unreadable commit ends the scan with an error at its read: the
\* commit is never probed or recorded, no probe of its batch or of a later
\* batch is spawned, no later batch is folded, analyze() returns no stats
\* and no report is written.
C9_MetadataFailureIsFatal ==
    (env.unreadable # 0) =>
        /\ task[env.unreadable].st = "idle"
        /\ \A k \in 1..Len(stats.commit_history) :
             stats.commit_history[k].id # env.unreadable
        /\ ~returned_stats /\ ~report_written
        /\ err = "metadata" =>
             /\ pc = "failed"
             /\ Outstanding = {}
             /\ \A k \in (batch_start + 1)..Len(commit_oids) :
                  task[commit_oids[k]].st = "idle"
             /\ Len(stats.commit_history) = batch_start
             /\ ~ENABLED Next

C9_Witness ==
    /\ err = "metadata"
    /\ batch_start > 0
    /\ Len(partial_commits) = 0

\* C10: when the pattern catalog does not compile or the repository does
\* not open, the run stops in construction: nothing is read through the
\* handle, no commit is walked, no probe is spawned, no report is written.
C10_ConstructionFailureAborts ==
    (~env.patterns_compile \/ ~env.repo_opens) =>
        /\ pc \in {"pattern_engine", "git_analyzer", "failed"}
        /\ handle_reads = 0
        /\ commit_oids = <<>>
        /\ \A o \in Oids : task[o].st = "idle"
        /\ stats = InitialStats
        /\ ~returned_stats /\ ~report_written

C10_Witness ==
    /\ pc = "failed"
    /\ err = "open"
    /\ env.patterns_compile

\* The scan is past the batch loop.
Extracted == pc \in {"derive", "remote", "report", "done"}

\* C11: the commit ids of commit_history are the ids of the walk from the
\* head, in walk order, in every state and for every order in which the
\* probes complete; at the end they are all the sampled commits.
C11_HistoryInWalkOrder ==
    /\ \A k \in 1..Len(stats.commit_history) : stats.commit_history[k].id = RevWalk[k]
    /\ Len(stats.commit_history) <= Len(RevWalk)
    /\ Extracted => Len(stats.commit_history) = Len(sample_commits(RevWalk))

C11_Witness ==
    /\ pc = "done"
    /\ Len(stats.commit_history) = reachable
    /\ \E k \in 1..Len(stats.commit_history) :
         stats.commit_history[k].files_changed # ProbeValue(stats.commit_history[k].id)

RECURSIVE SumTotalChanges(_, _)
SumTotalChanges(file_history, paths) ==
    IF paths = {} THEN 0
    ELSE LET p == CHOOSE x \in paths : TRUE IN
         file_history[p].total_changes + SumTotalChanges(file_history, paths \ {p})

RECURSIVE SumFilesChanged(_)
SumFilesChanged(commits) ==
    IF commits = <<>> THEN 0
    ELSE Len(Head(commits).files_changed) + SumFilesChanged(Tail(commits))

\* C15: in every state (so after every applied commit and every batch) the
\* total_changes of all FileHistory entries add up to the lengths of the
\* files_changed lists of all folded commits.
C15_TotalChangesSum ==
    SumTotalChanges(stats.file_history, DOMAIN stats.file_history)
        = SumFilesChanged(stats.commit_history)

C15_Witness ==
    /\ pc = "sleep"
    /\ batch_start > 0
    /\ SumFilesChanged(stats.commit_history) >= 4
    /\ Cardinality(DOMAIN stats.file_history) = 2

\* C20: the high-churn list does not depend on the order in which the
\* file_history map is iterated: every iteration order yields the list
\* that was derived.
C20_TieBreakDeterministic ==
    pc \in {"remote", "report", "done"} =>
        \A order \in IterationOrders(stats.file_history) :
            Take(sort_by_churn(order, stats.file_history),
                 high_churn_take(Cardinality(DOMAIN stats.file_history) \div 10))
                = stats.high_churn_files

\* The walk has been collected and sampled.
Walked == pc \notin {"pattern_engine", "git_analyzer", "reporter", "branches", "revwalk"}

C14_FilesChangedCapped ==
    \A k \in 1..Len(stats.commit_history) :
        Len(stats.commit_history[k].files_changed) <= MAX_FILES_PER_COMMIT

C14_Witness ==
    \E k \in 1..Len(stats.commit_history) :
        LET files == stats.commit_history[k].files_changed IN
        /\ Len(files) = MAX_FILES_PER_COMMIT
        /\ files = FileNames(MAX_FILES_PER_COMMIT)

\* C16: the total_changes of every FileHistory entry is the number of
\* distinct commits folded into the entry and the length of its commit-id
\* list, also when a commit's file list names a path more than once.
C16_TotalChangesDistinctCommits ==
    \A p \in DOMAIN stats.file_history :
        LET h == stats.file_history[p] IN
        /\ h.total_changes = Len(h.commits)
        /\ h.total_changes = Cardinality(SeqToSet(h.commits))

NumFiles == Cardinality(DOMAIN stats.file_history)

Derived == pc \in {"remote", "rederived"}

\* C17: a second run of calculate_derived_stats over an unchanged
\* FileHistory map leaves single_author_files, stale_files and
\* high_churn_files as they were after the first run.
C17_DerivationIdempotent ==
    [][(pc = "remote" /\ pc' = "rederived") =>
          /\ stats'.single_author_files = stats.single_author_files
          /\ stats'.stale_files = stats.stale_files
          /\ stats'.high_churn_files = stats.high_churn_files]_vars

\* C18: after the derivation of a non-empty FileHistory, high_churn_files
\* has ceil(10% of the files) entries, and no file outside the list has
\* strictly more total_changes than a file inside it.
C18_HighChurnIsCeilTenPercent ==
    (pc = "remote" /\ NumFiles > 0) =>
        /\ Len(stats.high_churn_files) = (NumFiles + 9) \div 10
        /\ \A p \in DOMAIN stats.file_history \ SeqToSet(stats.high_churn_files) :
             \A q \in SeqToSet(stats.high_churn_files) :
                 stats.file_history[p].total_changes <= stats.file_history[q].total_changes

\* C19: once derived, high_churn_files has at least one entry when
\* FileHistory is non-empty and none when FileHistory is empty.
C19_HighChurnNonEmpty ==
    Derived =>
        /\ NumFiles > 0 => Len(stats.high_churn_files) >= 1
        /\ NumFiles = 0 => stats.high_churn_files = <<>>

C19_Witness ==
    /\ pc = "remote"
    /\ NumFiles \in 1..9
    /\ Len(stats.high_churn_files) = 1

\* C21: for a stale threshold of T days (--stale-days), stale_files is
\* exactly the set of files whose last_commit is earlier than now - T days.
C21_StaleFollowsThreshold ==
    pc = "remote" =>
        SeqToSet(stats.stale_files) =
            {p \in DOMAIN stats.file_history :
                stats.file_history[p].last_commit < NowTime - env.stale_days}

Findings == {vulnerabilities[i] : i \in 1..Len(vulnerabilities)}

\* The commit of commit_history a finding is about.
CommitOf(f) ==
    CHOOSE c \in SeqToSet(stats.commit_history) : c.id = f.commit_id

\* C29: whatever the pool size and the order in which the workers take and
\* finish the commits, scan_repository returns the findings of the commits
\* in commit_history order, and RepositoryStats is not modified.
C29_ScanIndependentOfScheduling ==
    [][pc = "scanning" =>
          /\ stats' = stats
          /\ pc' = "report" => vulnerabilities' = scan_repository(stats.commit_history)]_vars

C29_Witness ==
    /\ pc = "scanning"
    /\ Len(scan_results) >= 2
    /\ scan_results[1].st = "running"
    /\ scan_results[2].st = "done"
    /\ scan_results[2].out # <<>>
    /\ analyze_commit(stats.commit_history[1]) # <<>>

\* Evaluating pattern on commit yields a match.
Matches(pattern, commit) ==
    /\ <<pattern.name, commit.id>> \notin env.regex_error
    /\ RegexOf(pattern)[commit.message].matched

\* The loaded patterns that match the commit, in catalog order.
MatchedPatterns(commit) ==
    SelectSeq(compiled_patterns, LAMBDA p : Matches(p, commit))

FindingsFor(commit) ==
    {i \in 1..Len(vulnerabilities) : vulnerabilities[i].commit_id = commit.id}

SeverityWeight(severity) ==
    CASE severity = "Critical" -> 9
      [] severity = "High"     -> 7
      [] severity = "Medium"   -> 5
      [] severity = "Low"      -> 3
      [] severity = "Info"     -> 1

RECURSIVE SumWeights(_)
SumWeights(patterns) ==
    IF patterns = <<>> THEN 0
    ELSE SeverityWeight(Head(patterns).severity) + SumWeights(Tail(patterns))

\* min(10, weights x sqrt(files) x (2 if a CVE Reference match, else 1)),
\* as the natural number whose square root it is.
ExpectedScore(commit) ==
    LET matched == MatchedPatterns(commit)
        weights == SumWeights(matched)
        cve == \E i \in 1..Len(matched) : matched[i].name = "CVE Reference"
    IN Min(10 * 10,
           (weights * weights) * Len(commit.files_changed) * (IF cve THEN 4 ELSE 1))

\* C22: every commit with at least one pattern match yields exactly one
\* finding, whose risk_score is min(10, sum of the severity weights of the
\* matches x sqrt(number of files changed) x (2 with a CVE Reference match)).
C22_RiskScoreFormula ==
    pc = "report" =>
        \A c \in SeqToSet(stats.commit_history) :
            MatchedPatterns(c) # <<>> =>
                /\ Cardinality(FindingsFor(c)) = 1
                /\ \A i \in FindingsFor(c) :
                       vulnerabilities[i].risk_score = ExpectedScore(c)

C22_Witness ==
    /\ pc = "report"
    /\ \E f \in Findings :
         /\ Len(f.patterns_matched) >= 2
         /\ Len(f.files_changed) = 2
         /\ f.risk_score > 0
         /\ f.risk_score < F64(10)

\* C23: every finding has a risk_score from 0 to 10, for every combination
\* of matches and every number of changed files, 0 included.
C23_RiskScoreBounded ==
    \A f \in Findings : f.risk_score >= 0 /\ f.risk_score <= F64(10)

C23_Witness ==
    /\ \E f \in Findings : f.files_changed = <<>> /\ f.risk_score = 0
    /\ \E f \in Findings :
         /\ f.risk_score = F64(10)
         /\ SumWeights(MatchedPatterns(CommitOf(f))) > 10

\* A PatternMatch of pattern, as calculate_risk_score reads it.
MatchOf(pattern) ==
    [pattern_name |-> pattern.name, severity |-> pattern.severity]

\* C24: the risk score of a finding is not lowered by one more pattern match
\* (files unchanged) nor by one more changed file (matches unchanged).
C24_RiskScoreMonotone ==
    \A f \in Findings :
        /\ \A k \in 1..Len(default_patterns) :
               calculate_risk_score(
                   Append(f.patterns_matched, MatchOf(default_patterns[k])),
                   CommitOf(f)) >= f.risk_score
        /\ calculate_risk_score(
               f.patterns_matched,
               [files_changed |-> Append(f.files_changed, "one_more.txt")])
           >= f.risk_score

C24_Witness ==
    \E f \in Findings :
        /\ f.risk_score < F64(10)
        /\ f.risk_score > 0
        /\ \E k \in 1..Len(default_patterns) :
               calculate_risk_score(
                   Append(f.patterns_matched, MatchOf(default_patterns[k])),
                   CommitOf(f)) > f.risk_score
        /\ calculate_risk_score(
               f.patterns_matched,
               [files_changed |-> Append(f.files_changed, "one_more.txt")])
           > f.risk_score

\* C25: the findings hold exactly one entry for each commit whose message
\* matches at least one loaded pattern and none for any other commit, and
\* no finding has an empty patterns_matched.
C25_OneFindingPerMatchingCommit ==
    pc = "report" =>
        /\ \A c \in SeqToSet(stats.commit_history) :
               Cardinality(FindingsFor(c)) = IF MatchedPatterns(c) # <<>> THEN 1 ELSE 0
        /\ \A f \in Findings :
               /\ f.patterns_matched # <<>>
               /\ \E c \in SeqToSet(stats.commit_history) : c.id = f.commit_id

C25_Witness ==
    /\ pc = "report"
    /\ Len(stats.commit_history) = 3
    /\ Len(vulnerabilities) = 2
    /\ MatchedPatterns(stats.commit_history[2]) = <<>>

\* C26: a commit whose message contains CVE-2021-1234 yields a finding with
\* a CVE Reference match and with CVE-2021-1234 among its references, under
\* the default pattern profile and under the full catalog.
C26_CveReferenceExtracted ==
    (pc = "report" /\ env.patterns \in {"vuln", "all"}) =>
        \A c \in SeqToSet(stats.commit_history) :
            (c.message = "CVE-2021-1234" /\ <<"CVE Reference", c.id>> \notin env.regex_error) =>
                \E f \in Findings :
                    /\ f.commit_id = c.id
                    /\ \E i \in 1..Len(f.patterns_matched) :
                           f.patterns_matched[i].pattern_name = "CVE Reference"
                    /\ "CVE-2021-1234" \in SeqToSet(f.cve_references)

\* C28: when the evaluation of a pattern on a commit message fails, the
\* pattern counts as not matched for that commit, the other patterns are
\* still evaluated on it, the other commits are still evaluated, and the
\* scan returns its findings to main.
C28_PatternFailureIsNoMatch ==
    pc = "report" =>
        /\ err = "none"
        /\ \A c \in SeqToSet(stats.commit_history) :
               LET matched == MatchedPatterns(c) IN
               IF matched = <<>> THEN FindingsFor(c) = {}
               ELSE \E i \in FindingsFor(c) :
                        [j \in 1..Len(vulnerabilities[i].patterns_matched) |->
                            vulnerabilities[i].patterns_matched[j].pattern_name]
                        = [j \in 1..Len(matched) |-> matched[j].name]

C28_Witness ==
    /\ pc = "report"
    /\ \E c \in SeqToSet(stats.commit_history) :
         /\ \E p \in SeqToSet(compiled_patterns) :
                /\ <<p.name, c.id>> \in env.regex_error
                /\ RegexOf(p)[c.message].matched
         /\ MatchedPatterns(c) # <<>>
    /\ \E c \in SeqToSet(stats.commit_history) :
         /\ \A p \in SeqToSet(compiled_patterns) : <<p.name, c.id>> \notin env.regex_error
         /\ FindingsFor(c) # {}

\* C30: a --patterns value outside the fixed set of profile names makes
\* PatternEngine::new fail, and every name the CLI documents (vuln, memory,
\* crypto, all) selects the profile it names.
C30_UnknownProfileRejected ==
    pc # "pattern_engine" =>
        /\ env.patterns \notin {"vuln", "memory", "memorysafety", "crypto", "web", "all"}
               => err # "none"
        /\ env.patterns = "vuln" => compiled_patterns = get_vuln_patterns
        /\ env.patterns = "memory" => compiled_patterns = get_memory_safety_patterns
        /\ env.patterns = "crypto" => compiled_patterns = get_crypto_patterns
        /\ env.patterns = "all" => compiled_patterns = default_patterns

\* No probe of the run met a fault of the environment.
NoProbeFault == \A o \in 1..reachable : task[o].fault = "none"

\* C27: on the history A (root, file1.txt, "fix buffer overflow"), B
\* (file1.txt and file2.txt, "routine update"), C (file2.txt, "CVE-2022-0001
\* auth bypass") the scan ends with total_changes 2 for file1.txt, with
\* exactly two findings, for A and C, and with risk_score 10 for C.
C27_ThreeCommitScenario ==
    (pc = "done" /\ reachable = 3 /\ NoProbeFault) =>
        /\ "file1.txt" \in DOMAIN stats.file_history
        /\ stats.file_history["file1.txt"].total_changes = 2
        /\ Len(vulnerabilities) = 2
        /\ {f.commit_id : f \in Findings} = {1, 3}
        /\ \A f \in Findings : f.commit_id = 1 => f.risk_score = F64(10)

(***************************************************************************)
(* Properties of the combined risk.                                        *)
(***************************************************************************)
IsNumber(a) == a.kind = "num"

\* a <= k, for a number a and a natural k
AtMost(a, k) == IsNumber(a) /\ a.n <= k * a.d

RiskComputed == overall_risk # <<>>

\* C31: calculate_overall_risk returns a value in [0,10] for every
\* RepositoryStats, CodeStats and finding collection, a repository with zero
\* files and zero findings included.
C31_OverallRiskInRange ==
    RiskComputed => AtMost(overall_risk[1].overall, 10)

\* The overall risk of zero files and zero findings has been computed.
C31_Witness ==
    /\ RiskComputed
    /\ stats.total_files = 0
    /\ vulnerabilities = <<>>
    /\ AtMost(overall_risk[1].overall, 10)

\* C32: each of the three sub-scores (history risk, code risk, vulnerability
\* risk) is bounded by a cap of its own before the three are added: the
\* history risk by the sum of its weights 2 + 1.5 + 1, the vulnerability risk
\* by 5, the code risk by some cap no larger than the total's 10.
C32_SubScoresCapped ==
    RiskComputed =>
        /\ AtMost(f64_mul(overall_risk[1].git, Num(2, 1)), 9)
        /\ AtMost(overall_risk[1].code, 10)
        /\ AtMost(overall_risk[1].vulnerability, 5)

\* C38: with CodeStats::default() (no --stats) the code risk is 0 and the
\* overall risk is min(10, history risk + vulnerability risk), for a
\* repository whose history risk is a number.
C38_NoCodeStatsAddsNothing ==
    (RiskComputed /\ code_stats[1] = CodeStats_default /\ stats.total_files > 0) =>
        /\ overall_risk[1].code = Num(0, 1)
        /\ overall_risk[1].overall =
               f64_min(f64_add(overall_risk[1].git, overall_risk[1].vulnerability),
                       Num(10, 1))

(***************************************************************************)
(* More properties of the extraction engine.                               *)
(***************************************************************************)
\* C33: a timed-out or failed probe is never retried: a commit's probe task,
\* once dispatched, is never dispatched again, and once it has ended its
\* result (data or empty) stays what it is.
C33_ProbeNeverRetried ==
    [][\A o \in Oids :
          /\ task[o].st # "idle" => task'[o].st # "idle"
          /\ task[o].st \in {"running", "finished", "joined"} => task'[o].st # "waiting"
          /\ task[o].st \in {"finished", "joined"} =>
                /\ task'[o].st \in {"finished", "joined"}
                /\ task'[o].files = task[o].files
                /\ task'[o].fault = task[o].fault]_vars

\* The extraction has returned with a probe that timed out and one that
\* failed, each collected once.
C33_Witness ==
    /\ returned_stats
    /\ \E o \in Oids : task[o].st = "joined" /\ task[o].fault = "timeout"
    /\ \E o \in Oids : task[o].st = "joined" /\ task[o].fault = "exit_error"
    /\ \A o \in 1..reachable : task[o].st = "joined"

Folded == {stats.commit_history[i] : i \in 1..Len(stats.commit_history)}

MinDate(commits) ==
    CHOOSE d \in {c.authored_date : c \in commits} :
        \A c \in commits : d <= c.authored_date

MaxDate(commits) ==
    CHOOSE d \in {c.authored_date : c \in commits} :
        \A c \in commits : c.authored_date <= d

\* The commits folded into the AuthorStats entry at key k
FoldedInto(k) == {c \in Folded : (c.author \o ":" \o c.author_email) = k}

\* The commits that touch file p
Touching(p) == {c \in Folded : p \in SeqToSet(c.files_changed)}

\* C34: after folding at least one commit, first_commit is the minimum and
\* last_commit the maximum authored timestamp over all folded commits, of the
\* repository, of every AuthorStats entry and of every FileHistory entry,
\* also for timestamps after the scan's start or before the epoch.
C34_CommitBoundsAreMinAndMax ==
    Folded # {} =>
        /\ stats.first_commit = MinDate(Folded)
        /\ stats.last_commit = MaxDate(Folded)
        /\ stats.first_commit <= stats.last_commit
        /\ \A k \in DOMAIN stats.author_stats :
              /\ stats.author_stats[k].first_commit = MinDate(FoldedInto(k))
              /\ stats.author_stats[k].last_commit = MaxDate(FoldedInto(k))
        /\ \A p \in DOMAIN stats.file_history :
              /\ stats.file_history[p].first_commit = MinDate(Touching(p))
              /\ stats.file_history[p].last_commit = MaxDate(Touching(p))

\* C37: two commits are folded into the same AuthorStats entry if and only if
\* they have equal author name and equal author e-mail: there are as many
\* entries as distinct (name, e-mail) pairs, and an entry counts the commits
\* of its own pair.
C37_AuthorIdentityIsNameAndEmail ==
    /\ Cardinality(DOMAIN stats.author_stats) =
           Cardinality({<<c.author, c.author_email>> : c \in Folded})
    /\ \A k \in DOMAIN stats.author_stats :
           stats.author_stats[k].commits =
               Cardinality({c \in Folded :
                               /\ c.author = stats.author_stats[k].name
                               /\ c.author_email = stats.author_stats[k].email})

RECURSIVE SumCommits(_, _)
SumCommits(author_stats, keys) ==
    IF keys = {} THEN 0
    ELSE LET k == CHOOSE x \in keys : TRUE
         IN author_stats[k].commits + SumCommits(author_stats, keys \ {k})

\* The key of the AuthorStats entry a commit is folded into
KeyOf(c) == c.author \o ":" \o c.author_email

\* The positions in commit_history of the commits folded at key k
CountedAt(k) ==
    {i \in 1..Len(stats.commit_history) : KeyOf(stats.commit_history[i]) = k}

\* C36: total_commits is the length of commit_history and the sum of
\* AuthorStats.commits over all authors, and every folded commit is counted
\* in exactly one AuthorStats entry: the entry at its key exists, and an
\* entry counts the commits of its key and no others.
C36_CommitCountsAgree ==
    /\ stats.total_commits = Len(stats.commit_history)
    /\ stats.total_commits = SumCommits(stats.author_stats, DOMAIN stats.author_stats)
    /\ \A i \in 1..Len(stats.commit_history) :
           KeyOf(stats.commit_history[i]) \in DOMAIN stats.author_stats
    /\ \A k \in DOMAIN stats.author_stats :
           stats.author_stats[k].commits = Cardinality(CountedAt(k))

\* Commits of two AuthorStats entries have been folded, one of the entries
\* counting several commits.
C36_Witness ==
    /\ Len(stats.commit_history) = MaxAuthored
    /\ Cardinality(DOMAIN stats.author_stats) = 2
    /\ \E k \in DOMAIN stats.author_stats : stats.author_stats[k].commits >= 2

\* C35: when the current head does not resolve, the extraction falls back to
\* the repository's default head (and returns that attempt's error when it
\* fails too); an extraction that succeeds on a repository with reachable
\* commits never returns an empty commit history.
C35_HeadFallbackNeverEmpty ==
    /\ (returned_stats /\ reachable > 0) => stats.commit_history # <<>>
    /\ env.head = "unresolved" =>
           /\ pc \in {"pattern_engine", "git_analyzer", "reporter", "branches",
                      "revwalk", "failed"}
           /\ (pc = "failed" /\ handle_reads >= 2) => err = "revwalk"
           /\ commit_oids = <<>>
           /\ ~returned_stats

\* The head did not resolve and the fallback's error ended the extraction.
C35_Witness ==
    /\ env.head = "unresolved"
    /\ pc = "failed"
    /\ err = "revwalk"
    /\ stats.commit_history = <<>>

\* C39: a scan over a finite history terminates: analyze_commits returns
\* with every task of the walk joined and every commit of the walk in the
\* history, and again and again no task is waiting for a permit, so that a
\* task that waits for one obtains it.
C39_ScanTerminates ==
    /\ <>(/\ pc = "derive"
          /\ batch_start = Len(commit_oids)
          /\ Len(stats.commit_history) = reachable
          /\ \A o \in 1..reachable : task[o].st = "joined")
    /\ []<>(\A o \in Oids : task[o].st # "waiting")

\* analyze_commits has returned from a walk with more commits than permits:
\* every commit is in the history, and a probe has reached its timeout.
C39_Witness ==
    /\ pc = "derive"
    /\ batch_start = reachable
    /\ reachable > SemaphorePermits
    /\ Len(stats.commit_history) = reachable
    /\ \A o \in 1..reachable : task[o].st = "joined"
    /\ \E o \in Oids : task[o].fault = "timeout"

\* Does analyze_commit return a finding for the result r of its loop?
YieldsFinding(r) == ~r.failed /\ ~NoFinding(r.patterns_matched)

\* C40: profiles are subsets of the full catalog: the patterns a profile
\* loads are patterns of the catalog, the default profile loads the catalog
\* without the Generic category in catalog order, and every finding of the
\* scan carries its commit's matches under the loaded profile, which are
\* among that commit's matches under 'all', where the commit yields a
\* finding too.
C40_ProfilesAreSubsetsOfAll ==
    /\ SeqToSet(compiled_patterns) \subseteq SeqToSet(default_patterns)
    /\ (compiled_patterns # <<>>
          /\ env.patterns \notin {"memorysafety", "crypto", "web", "all"})
         => compiled_patterns =
                SelectSeq(default_patterns, LAMBDA p : p.category # "Generic")
    /\ (compiled_patterns # <<>> /\ env.patterns = "all")
         => compiled_patterns = default_patterns
    /\ \A i \in 1..Len(vulnerabilities) :
          /\ vulnerabilities[i].patterns_matched =
                 matches_under(env.patterns, CommitOf(vulnerabilities[i])).patterns_matched
          /\ YieldsFinding(matches_under("all", CommitOf(vulnerabilities[i])))
          /\ SeqToSet(vulnerabilities[i].patterns_matched) \subseteq
                 SeqToSet(matches_under("all", CommitOf(vulnerabilities[i])).patterns_matched)

\* The scan under a category profile has returned a finding for a commit
\* that has more matches under 'all' than under the profile.
C40_Witness ==
    /\ pc = "report"
    /\ env.patterns \in {"memorysafety", "crypto", "web"}
    /\ \E i \in 1..Len(vulnerabilities) :
          Len(vulnerabilities[i].patterns_matched) <
              Len(matches_under("all", CommitOf(vulnerabilities[i])).patterns_matched)

====
